---- MODULE Spec2Model ----
(***************************************************************************)
(* Forward passes of the EasyDeL decoder-only models (Mistral, GPT-NeoX,   *)
(* DBRX) over a per-session KV cache.  Tensors are symbolic: a hidden      *)
(* vector is the term that computes it, an attention output is the set of  *)
(* (key, relative rotary offset) pairs its softmax row gives weight to.    *)
(***************************************************************************)
EXTENDS Integers, Sequences, FiniteSets, TLC

\* ------------------------------------------------------------ bounds
NumLayers == 2      \* config.num_hidden_layers / config.n_layers
MaxPos == 2         \* config.max_position_embeddings
MaxCacheLen == 2    \* length the generation driver allocates per cache view
VocabSize == 2      \* config.vocab_size
MaxCalls == 2       \* forward passes that reach the decoder blocks, per behaviour
NumExperts == 3     \* config.ffn_config.moe_num_experts
MaxBatch == 2       \* largest batch size of a router or classification call
MaxLogit == 2       \* router logits range over 0..MaxLogit
MaxHeads == 8       \* largest config.num_attention_heads / config.n_heads
MaxTime == 3        \* last reading of time.time(), in clock ticks
MaxFeatures == 2    \* largest in_features / out_features of a linear layer
MaxBlockSize == 2   \* largest block_size of a quantization
MaxPairs == 2       \* code pairs in the longest packed sequence

\* ------------------------------------------------------------ optional values
None == {}
Some(v) == {v}
Get(o) == CHOOSE v \in o : TRUE

Max2(a, b) == IF a >= b THEN a ELSE b

RECURSIVE SumTo(_, _)
SumTo(s, i) == IF i = 0 THEN 0 ELSE s[i] + SumTo(s, i - 1)

XOR(a, b) == (a /\ ~b) \/ (~a /\ b)

\* the two values of the additive attention bias
BiasOpen == "0"
BiasMasked == "finfo.min"

Sessions == {"s1", "s2"}

\* the token the driver feeds at absolute position p (0-based)
TokenAt(p) == (p % VocabSize) + 1

\* ------------------------------------------------------------ state
VARIABLES
  cfg,       \* the config the model was constructed with (never assigned after Init)
  cache,     \* cache[s]: the TransformerCache of session s, one view per layer
  rngs,      \* the model's nnx.Rngs: number of keys drawn from each stream
  lm_head,   \* the value held by lm_head.kernel
  calls,     \* forward passes that reached the decoder blocks
  last,      \* the last forward call: its arguments and what it returned
  hist,      \* hist[s]: the decode history of session s
  solo,      \* solo[s]: session s replayed on a model no other session calls
  moe        \* the last call of a DBRX router / MoE layer or of a pooling head

vars == <<cfg, cache, rngs, lm_head, calls, last, hist, solo, moe>>

\* ------------------------------------------------------------ embeddings
\* nn.Embed lookup: one row of the embedding table per token id
embed_tokens(ids) == [i \in 1..Len(ids) |-> [src |-> "embedding", tok |-> ids[i]]]

\* embeddings computed by the caller for the same tokens
GivenEmbeds(ids) == [i \in 1..Len(ids) |-> [src |-> "given", tok |-> ids[i]]]

\* ------------------------------------------------------------ cache
\* TransformerCache.init_empty(n): n slots, none holding a view
init_empty(n) == [i \in 1..n |-> None]

\* a cache view allocated by the generation driver for one layer
EmptyView == [key |-> <<>>, value |-> <<>>, mask |-> <<>>, index |-> 0]

\* the cache the driver creates at the start of a session
init_cache(n) == [i \in 1..n |-> Some(EmptyView)]

\* a ring-buffer write: past the last slot the write continues at slot 1
concatenate_to_cache_wrap(v, k, val, m) ==
  LET n == Len(k)
      top == IF v.index + n > MaxCacheLen THEN MaxCacheLen ELSE v.index + n
      src(j) == IF \E i \in 1..n : ((v.index + i - 1) % MaxCacheLen) + 1 = j
                  THEN Some(CHOOSE i \in 1..n :
                              /\ ((v.index + i - 1) % MaxCacheLen) + 1 = j
                              /\ \A i2 \in 1..n :
                                   ((v.index + i2 - 1) % MaxCacheLen) + 1 = j => i2 <= i)
                  ELSE None
  IN [err |-> "none",
      view |-> [key |-> [j \in 1..top |-> IF src(j) = None THEN v.key[j] ELSE k[Get(src(j))]],
                value |-> [j \in 1..top |-> IF src(j) = None THEN v.value[j]
                                             ELSE val[Get(src(j))]],
                mask |-> [j \in 1..top |-> IF src(j) = None THEN v.mask[j] ELSE m[Get(src(j))]],
                index |-> top]]

\* TransformerCacheView: write the new key/value vectors at the fill index
concatenate_to_cache(v, k, val, m) ==
  IF v.index + Len(k) > MaxCacheLen
    THEN [err |-> "CacheOverflow", view |-> v]
    ELSE [err |-> "none",
          view |-> [key |-> v.key \o k, value |-> v.value \o val,
                    mask |-> v.mask \o m, index |-> v.index + Len(k)]]

\* FlaxAttentionModule.concatenate: keys/values the queries attend over and the
\* additive bias; row i is the i-th new query, column j the j-th key position
concatenate(k, val, cache_view, attention_mask) ==
  LET n == Len(k) IN
  IF cache_view = None
    THEN [err |-> "none", key |-> k, value |-> val, view |-> None, fill |-> 0,
          bias |-> [i \in 1..n |-> [j \in 1..n |->
                      IF j <= i /\ attention_mask[j] = 1 THEN BiasOpen ELSE BiasMasked]]]
    ELSE LET v == Get(cache_view)
             w == concatenate_to_cache(v, k, val, attention_mask)
         IN IF w.err # "none"
              THEN [err |-> w.err, key |-> <<>>, value |-> <<>>, view |-> cache_view,
                    fill |-> v.index, bias |-> <<>>]
              ELSE [err |-> "none", key |-> w.view.key, value |-> w.view.value,
                    view |-> Some(w.view), fill |-> v.index,
                    bias |-> [i \in 1..n |-> [j \in 1..MaxCacheLen |->
                                IF /\ j <= v.index + i
                                   /\ j <= w.view.index
                                   /\ w.view.mask[j] = 1
                                THEN BiasOpen ELSE BiasMasked]]]

\* FlexibleAttentionModule: softmax(q.k^T * scale + bias).v ; the rotary
\* embedding makes q.k^T depend on the offset between the two position ids
attention_performer(q, key, value, bias) ==
  [i \in 1..Len(q) |->
     [q |-> q[i].x,
      ctx |-> {[at |-> j, k |-> key[j].x, v |-> value[j],
                rel |-> q[i].pos - key[j].pos] :
                 j \in {jj \in 1..Len(key) : bias[i][jj] = BiasOpen}}]]

\* the attention_weights the attention module returns next to its outputs: for
\* each query the softmax row over the key positions the bias leaves open
attention_weights(q, key, bias) ==
  [tensor |-> "attention_weights",
   rows |-> [i \in 1..Len(q) |->
               [q |-> q[i].x,
                over |-> {[at |-> j, k |-> key[j].x, rel |-> q[i].pos - key[j].pos] :
                            j \in {jj \in 1..Len(key) : bias[i][jj] = BiasOpen}}]]]

\* a normalisation layer (RMSNorm / LayerNorm) applied to every position; the
\* result is an array holding its values (\o <<>> builds the sequence once)
Norm(name, x) == [i \in 1..Len(x) |-> [norm |-> name, of |-> x[i]]] \o <<>>

\* attn + x, position by position: the sum is the record of its two summands
Residual(x, attn) == [i \in 1..Len(x) |-> [x |-> x[i], attn |-> attn[i]]] \o <<>>

\* the feed-forward sub-layer (MLP or MoE) `name` applied to norm(s), where s is
\* the sum of the summands `of` ("x", "attn") of the vector it is added to
FeedForward(name, norm, of) == [fn |-> name, norm |-> norm, of |-> of]

\* h + f, position by position: the summands of h and the feed-forward output f
AddFfn(h, f) == [i \in 1..Len(h) |-> [x |-> h[i].x, attn |-> h[i].attn, ffn |-> f]] \o <<>>

\* rotary embedding: the projected vector turned by its position id
rotary(x, position_ids) == [i \in 1..Len(x) |-> [x |-> x[i], pos |-> position_ids[i]]] \o <<>>

\* nnx.Rngs stream call: hands out a key and advances the stream
DrawKey(r, stream) == [r EXCEPT ![stream] = @ + 1]

\* ------------------------------------------------------------ shared input handling
\* the all-ones mask used whether or not the caller gave one
DefaultMask_AlwaysOnes(attention_mask, n) == [i \in 1..n |-> 1]

\* attention_mask = jnp.ones((batch, sequence_length)) when none is given
DefaultMask(attention_mask, n) ==
  IF attention_mask = None THEN [i \in 1..n |-> 1] ELSE Get(attention_mask)

\* position_ids = clip(cumsum(attention_mask) - 1, 0) when none is given
DefaultPositions(position_ids, mask) ==
  IF position_ids = None
    THEN [i \in 1..Len(mask) |-> Max2(SumTo(mask, i) - 1, 0)]
    ELSE Get(position_ids)

\* what a raise leaves behind
Raise(kind, args, views, r, trace) ==
  [err |-> kind, errArgs |-> args, hidden |-> <<>>, views |-> views, rngs |-> r,
   trace |-> trace, attns |-> <<>>, biases |-> <<>>, first |-> <<>>,
   attentions |-> None, io |-> <<>>]

Event(ev, idx, view) == [ev |-> ev, idx |-> idx, view |-> view]

\* ------------------------------------------------------------ Mistral
\* MistralAttention.__call__
MistralAttentionCall(hidden_states, attention_mask, position_ids, cache_view, r, output_attentions) ==
  LET qk == rotary(hidden_states, position_ids)
      attend(c) ==
        IF c.err # "none"
          THEN [err |-> c.err, out |-> <<>>, view |-> cache_view, rngs |-> r,
                bias |-> <<>>, weights |-> None]
          ELSE [err |-> "none",
                out |-> attention_performer(qk, c.key, c.value, c.bias),
                view |-> c.view, rngs |-> DrawKey(r, "params"), bias |-> c.bias,
                weights |-> IF output_attentions
                              THEN Some(attention_weights(qk, c.key, c.bias))
                              ELSE None]
  IN attend(concatenate(qk, hidden_states, cache_view, attention_mask))

\* MistralDecoderLayer.__call__
MistralDecoderLayerCall(hidden_states, attention_mask, position_ids, cache_view, r, output_attentions) ==
  LET mlp == FeedForward("mlp", "post_attention_layernorm", {"x", "attn"})
      residual(a) ==
        IF a.err # "none"
          THEN [err |-> a.err, out |-> <<>>, attn |-> <<>>, view |-> a.view,
                rngs |-> a.rngs, bias |-> a.bias, weights |-> None]
          ELSE [err |-> a.err, out |-> AddFfn(Residual(hidden_states, a.out), mlp),
                attn |-> a.out, view |-> a.view, rngs |-> a.rngs, bias |-> a.bias,
                weights |-> IF output_attentions THEN a.weights ELSE None]
  IN residual(MistralAttentionCall(Norm("input_layernorm", hidden_states),
                                   attention_mask, position_ids, cache_view, r,
                                   output_attentions))

\* an off-by-one view index: block idx handed the view of block idx - 1
MistralViewIndex_OffByOne(idx) == Max2(idx - 1, 0)

\* the cache view MistralModel hands to block idx (0-based)
MistralViewIndex(idx) == idx

\* what the loop over the blocks has recorded so far: the attention outputs and
\* biases of each block, each block's input and output, and all_attentions
NoRun == [attns |-> <<>>, biases |-> <<>>, io |-> <<>>, all_attentions |-> <<>>]

\* the record after block b ran on `hidden`
Ran(run, hidden, b, output_attentions) ==
  [attns |-> Append(run.attns, b.attn),
   biases |-> Append(run.biases, b.bias),
   io |-> Append(run.io, [in |-> hidden, out |-> b.out]),
   all_attentions |-> IF output_attentions
                        THEN Append(run.all_attentions, Get(b.weights))
                        ELSE run.all_attentions]

\* what a model returns when its loop is done
Done(hidden, views, r, trace, run, attentions) ==
  [err |-> "none", errArgs |-> <<>>, hidden |-> hidden, views |-> views, rngs |-> r,
   trace |-> trace, attns |-> run.attns, biases |-> run.biases, first |-> <<>>,
   attentions |-> attentions, io |-> run.io]

RECURSIVE MistralLayers(_, _, _, _, _, _, _, _, _)
\* a loop that hands every block the embeddings instead of the previous output
MistralLayers_FromEmbeddings(idx, hidden, mask, pos, views, r, trace, run, output_attentions) ==
  IF idx = NumLayers
    THEN Done(Norm("norm", hidden), views, r,
              Append(trace, Event("norm", idx - 1, -1)), run,
              IF output_attentions THEN Some(run.all_attentions) ELSE None)
    ELSE LET vi == MistralViewIndex(idx) + 1
             tr == Append(trace, Event("block", idx, vi - 1))
             rest(b) ==
               IF b.err # "none"
                 THEN Raise(b.err, <<>>, views, r, tr)
                 ELSE MistralLayers(idx + 1, hidden, mask, pos,
                        [views EXCEPT ![vi] = b.view], b.rngs, tr,
                        Ran(run, hidden, b, output_attentions), output_attentions)
         IN rest(MistralDecoderLayerCall(hidden, mask, pos, views[vi], r,
                                         output_attentions))

\* MistralModel.__call__: the loop over the blocks, then the final norm
MistralLayers(idx, hidden, mask, pos, views, r, trace, run, output_attentions) ==
  IF idx = NumLayers
    THEN Done(Norm("norm", hidden), views, r,
              Append(trace, Event("norm", idx - 1, -1)), run,
              IF output_attentions THEN Some(run.all_attentions) ELSE None)
    ELSE LET vi == MistralViewIndex(idx) + 1
             tr == Append(trace, Event("block", idx, vi - 1))
             rest(b) ==
               IF b.err # "none"
                 THEN Raise(b.err, <<>>, views, r, tr)
                 ELSE MistralLayers(idx + 1, b.out, mask, pos,
                        [views EXCEPT ![vi] = b.view], b.rngs, tr,
                        Ran(run, hidden, b, output_attentions), output_attentions)
         IN rest(MistralDecoderLayerCall(hidden, mask, pos, views[vi], r,
                                         output_attentions))

\* an input check that only notices that nothing was given
MistralInputError_NeitherOnly(input_ids, inputs_embeds) ==
  input_ids = None /\ inputs_embeds = None

\* MistralModel.__call__: the input check
MistralInputError(input_ids, inputs_embeds) ==
  XOR(input_ids = None, inputs_embeds # None)

\* MistralModel.__call__: the sequence-length assertion
MistralLengthError(sequence_length) == ~(sequence_length <= MaxPos)

\* MistralModel.__call__
MistralModelCall(in, past_key_values, r) ==
  LET views0 == IF past_key_values = None THEN init_empty(NumLayers)
                ELSE Get(past_key_values)
  IN IF MistralInputError(in.input_ids, in.inputs_embeds)
       THEN Raise("ValueError", <<>>, views0, r, <<>>)
       ELSE LET inputs_embeds == IF in.inputs_embeds = None
                                   THEN embed_tokens(Get(in.input_ids))
                                   ELSE Get(in.inputs_embeds)
                n == Len(inputs_embeds)
            IN IF MistralLengthError(n)
                 THEN Raise("AssertionError", <<MaxPos, n>>, views0, r, <<>>)
                 ELSE LET mask == DefaultMask(in.attention_mask, n)
                          pos == DefaultPositions(in.position_ids, mask)
                          res == MistralLayers(0, inputs_embeds, mask, pos, views0, r,
                                               <<>>, NoRun,
                                               in.output_attentions = Some(TRUE))
                      IN [res EXCEPT !.first = inputs_embeds]

\* ------------------------------------------------------------ GPT-NeoX
\* nnx.Dropout held by the module: identity at rate 0, else one key per call
Dropout(x, rate, r) ==
  IF rate = 0 THEN [x |-> x, rngs |-> r]
  ELSE [x |-> [i \in 1..Len(x) |-> [src |-> "dropout", key |-> r["dropout"], of |-> x[i]]],
        rngs |-> DrawKey(r, "dropout")]

\* GPTNeoXAttention.__call__
GPTNeoXAttentionCall(hidden_states, attention_mask, position_ids, cache_view, r, output_attentions) ==
  LET qk == rotary(hidden_states, position_ids)
      attend(c) ==
        IF c.err # "none"
          THEN [err |-> c.err, out |-> <<>>, view |-> cache_view, rngs |-> r,
                bias |-> <<>>, weights |-> None]
          ELSE [err |-> "none",
                out |-> attention_performer(qk, c.key, c.value, c.bias),
                view |-> c.view, rngs |-> DrawKey(r, "params"), bias |-> c.bias,
                weights |-> IF output_attentions
                              THEN Some(attention_weights(qk, c.key, c.bias))
                              ELSE None]
  IN attend(concatenate(qk, hidden_states, cache_view, attention_mask))

\* a block that takes the sequential path whatever use_parallel_residual says
GPTNeoXBlockCall_AlwaysSequential(hidden_states, attention_mask, position_ids, cache_view, r, parallel, output_attentions) ==
  LET mlp == FeedForward("mlp", "post_attention_layernorm", {"x", "attn"})
      residual(a) ==
        IF a.err # "none"
          THEN [err |-> a.err, out |-> <<>>, attn |-> <<>>, view |-> a.view,
                rngs |-> a.rngs, bias |-> a.bias, weights |-> None]
          ELSE [err |-> a.err, out |-> AddFfn(Residual(hidden_states, a.out), mlp),
                attn |-> a.out, view |-> a.view, rngs |-> a.rngs, bias |-> a.bias,
                weights |-> a.weights]
  IN residual(GPTNeoXAttentionCall(Norm("input_layernorm", hidden_states),
                                   attention_mask, position_ids, cache_view, r,
                                   output_attentions))

\* GPTNeoXBlock.__call__
GPTNeoXBlockCall(hidden_states, attention_mask, position_ids, cache_view, r, parallel, output_attentions) ==
  LET mlp(of) == FeedForward("mlp", "post_attention_layernorm", of)
      residual(a) ==
        IF a.err # "none"
          THEN [err |-> a.err, out |-> <<>>, attn |-> <<>>, view |-> a.view,
                rngs |-> a.rngs, bias |-> a.bias, weights |-> None]
          ELSE [err |-> a.err,
                out |-> IF parallel
                          THEN AddFfn(Residual(hidden_states, a.out), mlp({"x"}))
                          ELSE AddFfn(Residual(hidden_states, a.out),
                                      mlp({"x", "attn"})),
                attn |-> a.out, view |-> a.view, rngs |-> a.rngs, bias |-> a.bias,
                weights |-> a.weights]
  IN residual(GPTNeoXAttentionCall(Norm("input_layernorm", hidden_states),
                                   attention_mask, position_ids, cache_view, r,
                                   output_attentions))

\* the cache view GPTNeoXModel hands to block idx (0-based)
GPTNeoXViewIndex(idx) == idx

\* GPTNeoXModel.__call__: the loop over the blocks, then the final norm
RECURSIVE GPTNeoXLayers(_, _, _, _, _, _, _, _, _, _)
GPTNeoXLayers(idx, hidden, mask, pos, views, r, trace, run, output_attentions, parallel) ==
  IF idx = NumLayers
    THEN Done(Norm("final_layer_norm", hidden), views, r,
              Append(trace, Event("norm", idx - 1, -1)), run,
              IF output_attentions THEN Some(run.all_attentions) ELSE None)
    ELSE LET vi == GPTNeoXViewIndex(idx) + 1
             tr == Append(trace, Event("block", idx, vi - 1))
             rest(b) ==
               IF b.err # "none"
                 THEN Raise(b.err, <<>>, views, r, tr)
                 ELSE GPTNeoXLayers(idx + 1, b.out, mask, pos,
                        [views EXCEPT ![vi] = b.view], b.rngs, tr,
                        Ran(run, hidden, b, output_attentions), output_attentions,
                        parallel)
         IN rest(GPTNeoXBlockCall(hidden, mask, pos, views[vi], r, parallel,
                                  output_attentions))

\* GPTNeoXModel.__call__: the input check ("both", "missing" or "none")
GPTNeoXInputError(input_ids, input_embeds) ==
  IF input_ids # None /\ input_embeds # None THEN "both"
  ELSE IF input_embeds = None /\ input_ids # None THEN "none"
  ELSE "missing"

\* GPTNeoXModel.__call__: the sequence-length assertion
GPTNeoXLengthError(sequence_length) == ~(sequence_length <= MaxPos)

\* GPTNeoXModel.__call__
GPTNeoXModelCall(in, past_key_values, r, c) ==
  LET views0 == IF past_key_values = None THEN init_empty(NumLayers)
                ELSE Get(past_key_values)
  IN IF GPTNeoXInputError(in.input_ids, in.inputs_embeds) # "none"
       THEN Raise("ValueError", <<>>, views0, r, <<>>)
       ELSE LET input_embeds == embed_tokens(Get(in.input_ids))
                n == Len(input_embeds)
                mask == DefaultMask(in.attention_mask, n)
                pos == DefaultPositions(in.position_ids, mask)
            IN IF GPTNeoXLengthError(n)
                 THEN Raise("AssertionError", <<MaxPos, n>>, views0, r, <<>>)
                 ELSE LET d == Dropout(input_embeds, c.dropout, r)
                          res == GPTNeoXLayers(0, d.x, mask, pos, views0, d.rngs,
                                               <<>>, NoRun,
                                               in.output_attentions = Some(TRUE),
                                               c.parallel)
                      IN [res EXCEPT !.first = input_embeds]

\* ------------------------------------------------------------ DBRX
\* a Python bool held where a tensor is expected
PyBool(b) == [bool |-> b]

\* DbrxAttention.__call__
\* the second element of its result is the output_attentions argument itself
DbrxAttentionCall(hidden_states, attention_mask, position_ids, cache_view, r, output_attentions) ==
  LET qk == rotary(hidden_states, position_ids)
      attend(c) ==
        IF c.err # "none"
          THEN [err |-> c.err, out |-> <<>>, view |-> cache_view, rngs |-> r,
                bias |-> <<>>, weights |-> None]
          ELSE [err |-> "none",
                out |-> attention_performer(qk, c.key, c.value, c.bias),
                view |-> c.view, rngs |-> DrawKey(r, "params"), bias |-> c.bias,
                weights |-> IF output_attentions THEN Some(PyBool(output_attentions))
                            ELSE None]
  IN attend(concatenate(qk, hidden_states, cache_view, attention_mask))

\* a block that does not hand its cache view to the attention module
DbrxBlockCall_DropsView(hidden_states, attention_mask, position_ids, cache_view, r, output_attentions) ==
  LET ffn == FeedForward("ffn", "norm_2", {"x", "attn"})
      residual(a) ==
        [view |-> cache_view, err |-> a.err, rngs |-> a.rngs, bias |-> a.bias,
         out |-> AddFfn(Residual(hidden_states, a.out), ffn), attn |-> a.out,
         weights |-> IF output_attentions THEN a.weights ELSE None,
         router_logits |-> [i \in 1..Len(hidden_states) |->
                              [router |-> "softmax(layer(norm_2(x+attn)))",
                               x |-> hidden_states[i], attn |-> a.out[i]]]]
  IN residual(DbrxAttentionCall(Norm("norm_1", hidden_states), attention_mask,
                                position_ids, None, r, output_attentions))

\* DbrxNormAttentionNorm.__call__ followed by DbrxBlock.__call__; resid_pdrop is 0 in
\* every DBRX configuration above, so the two residual dropouts are the identity
DbrxBlockCall(hidden_states, attention_mask, position_ids, cache_view, r, output_attentions) ==
  LET ffn == FeedForward("ffn", "norm_2", {"x", "attn"})
      residual(a) ==
        IF a.err # "none"
          THEN [view |-> a.view, err |-> a.err, rngs |-> a.rngs, bias |-> a.bias,
                out |-> <<>>, attn |-> <<>>, weights |-> None, router_logits |-> <<>>]
          ELSE [view |-> a.view, err |-> a.err, rngs |-> a.rngs, bias |-> a.bias,
                out |-> AddFfn(Residual(hidden_states, a.out), ffn), attn |-> a.out,
                weights |-> IF output_attentions THEN a.weights ELSE None,
                router_logits |-> [i \in 1..Len(hidden_states) |->
                                     [router |-> "softmax(layer(norm_2(x+attn)))",
                                      x |-> hidden_states[i], attn |-> a.out[i]]]]
  IN residual(DbrxAttentionCall(Norm("norm_1", hidden_states), attention_mask,
                                position_ids, cache_view, r, output_attentions))

\* the cache view DbrxModel hands to block idx (0-based)
DbrxViewIndex(idx) == idx

\* DbrxModel.__call__: the loop over the blocks, then the final norm
RECURSIVE DbrxLayers(_, _, _, _, _, _, _, _, _, _, _)
DbrxLayers(idx, hidden, mask, pos, views, r, trace, run, output_attentions, output_router_logits, all_router_logits) ==
  IF idx = NumLayers
    THEN [err |-> "none", errArgs |-> <<>>, hidden |-> Norm("norm_f", hidden),
          views |-> views, rngs |-> r,
          trace |-> Append(trace, Event("norm", idx - 1, -1)),
          attns |-> run.attns, biases |-> run.biases, first |-> <<>>,
          attentions |-> Some(run.all_attentions), io |-> run.io,
          router_logits |-> all_router_logits]
    ELSE LET vi == DbrxViewIndex(idx) + 1
             tr == Append(trace, Event("block", idx, vi - 1))
             rest(b) ==
               IF b.err # "none"
                 THEN Raise(b.err, <<>>, views, r, tr)
                 ELSE DbrxLayers(idx + 1, b.out, mask, pos,
                        [views EXCEPT ![vi] = b.view], b.rngs, tr,
                        Ran(run, hidden, b, output_attentions), output_attentions,
                        output_router_logits,
                        IF output_router_logits
                          THEN Append(all_router_logits, b.router_logits)
                          ELSE all_router_logits)
         IN rest(DbrxBlockCall(hidden, mask, pos, views[vi], r, output_attentions))

\* DbrxModel.__call__: the input check ("both", "missing" or "none")
DbrxInputError(input_ids, input_embeds) ==
  IF input_ids # None /\ input_embeds # None THEN "both"
  ELSE IF input_embeds = None /\ input_ids # None THEN "none"
  ELSE "missing"

\* DbrxModel.__call__: no statement compares the sequence length with
\* config.max_position_embeddings
DbrxLengthError(sequence_length) == FALSE

\* a wrapper that looks only at the argument and never at the config default
DbrxOutputRouterLogits_ArgumentOnly(output_router_logits, c) ==
  output_router_logits = Some(TRUE)

\* output_router_logits of the call: the argument, or the config default when omitted
DbrxOutputRouterLogits(output_router_logits, c) ==
  IF output_router_logits = None THEN c.output_router_logits
  ELSE Get(output_router_logits)

\* output_attentions of the call: the argument, or the config default when omitted
DbrxOutputAttentions(output_attentions, c) ==
  IF output_attentions = None THEN c.output_attentions ELSE Get(output_attentions)

\* DbrxModel.__call__
DbrxModelCall(in, past_key_values, r, c) ==
  LET views0 == IF past_key_values = None THEN init_empty(NumLayers)
                ELSE Get(past_key_values)
  IN IF DbrxInputError(in.input_ids, in.inputs_embeds) # "none"
       THEN Raise("ValueError", <<>>, views0, r, <<>>)
       ELSE LET input_embeds == embed_tokens(Get(in.input_ids))
                n == Len(input_embeds)
                mask == DefaultMask(in.attention_mask, n)
                pos == DefaultPositions(in.position_ids, mask)
            IN IF DbrxLengthError(n)
                 THEN Raise("AssertionError", <<MaxPos, n>>, views0, r, <<>>)
                 ELSE LET res == DbrxLayers(0, input_embeds, mask, pos, views0, r,
                                            <<>>, NoRun,
                                            DbrxOutputAttentions(
                                              in.output_attentions, c),
                                            DbrxOutputRouterLogits(
                                              in.output_router_logits, c),
                                            <<>>)
                      IN [res EXCEPT !.first = input_embeds]

\* ------------------------------------------------------------ causal-LM wrappers
\* jnp.promote_types on the two floating types a model is built with
PromoteTypes(a, b) == IF a = b THEN a ELSE "float32"

\* dtype of the output of an nn.Linear built with dtype=self.dtype
LinearDtype(c) == c.dtype

\* nn.Linear lm_head applied with the kernel it holds
LmHead(hidden, kernel) == [i \in 1..Len(hidden) |-> [h |-> hidden[i], w |-> kernel]]

\* MistralForCausalLM.__call__
MistralForCausalLMCall(in, past_key_values, r, kernel, c) ==
  LET head(m) ==
        IF m.err # "none"
          THEN [model |-> m, logits |-> <<>>, lm_head |-> kernel,
                logits_dtype |-> None, aux_loss |-> None, router_logits |-> <<>>]
          ELSE [model |-> m,
                logits |-> IF c.tie_word_embeddings
                             THEN LmHead(m.hidden, "embedding.T")
                             ELSE LmHead(m.hidden, kernel),
                lm_head |-> kernel,
                logits_dtype |-> IF c.tie_word_embeddings
                                   THEN Some(PromoteTypes(c.dtype, c.param_dtype))
                                   ELSE Some(LinearDtype(c)),
                aux_loss |-> None, router_logits |-> <<>>]
  IN head(MistralModelCall(in, past_key_values, r))

\* GPTNeoXForCausalLM.__call__
GPTNeoXForCausalLMCall(in, past_key_values, r, kernel, c) ==
  LET k == IF c.tie_word_embeddings THEN "embedding.T" ELSE kernel
      head(m) ==
        IF m.err # "none"
          THEN [model |-> m, logits |-> <<>>, lm_head |-> kernel,
                logits_dtype |-> None, aux_loss |-> None, router_logits |-> <<>>]
          ELSE [model |-> m, logits |-> LmHead(m.hidden, k), lm_head |-> k,
                logits_dtype |-> Some("float32"),
                aux_loss |-> None, router_logits |-> <<>>]
  IN head(GPTNeoXModelCall(in, past_key_values, r, c))

\* fjformer's load-balancing loss over the router outputs of all layers,
\* times config.router_aux_loss_coef
auxiliary_load_balancing_loss(gate_logits, attention_mask, c) ==
  [times |-> "router_aux_loss_coef",
   loss |-> [fn |-> "auxiliary_load_balancing_loss_func", gate_logits |-> gate_logits,
             num_experts |-> "moe_num_experts", top_k |-> "moe_top_k",
             attention_mask |-> attention_mask]]

\* DbrxForCausalLM.__call__
DbrxForCausalLMCall(in, past_key_values, r, kernel, c) ==
  LET output_router_logits == DbrxOutputRouterLogits(in.output_router_logits, c)
      head(m) ==
        IF m.err # "none"
          THEN [model |-> m, logits |-> <<>>, lm_head |-> kernel,
                logits_dtype |-> None, aux_loss |-> None, router_logits |-> <<>>]
          ELSE [model |-> m, logits |-> LmHead(m.hidden, kernel), lm_head |-> kernel,
                logits_dtype |-> Some(LinearDtype(c)),
                aux_loss |-> IF output_router_logits
                               THEN Some(auxiliary_load_balancing_loss(
                                           m.router_logits, in.attention_mask, c))
                               ELSE None,
                router_logits |-> m.router_logits]
  IN head(DbrxModelCall([in EXCEPT !.output_router_logits =
                                      Some(output_router_logits)],
                        past_key_values, r, c))

\* the wrapper of the architecture the config names
ForCausalLMCall(in, past_key_values, r, kernel, c) ==
  IF c.arch = "mistral" THEN MistralForCausalLMCall(in, past_key_values, r, kernel, c)
  ELSE IF c.arch = "gpt_neox"
    THEN GPTNeoXForCausalLMCall(in, past_key_values, r, kernel, c)
  ELSE DbrxForCausalLMCall(in, past_key_values, r, kernel, c)

\* ------------------------------------------------------------ configurations and inputs
Config(arch, tie, dropout, parallel, dtype, param_dtype, output_router_logits) ==
  [arch |-> arch, tie_word_embeddings |-> tie, dropout |-> dropout, parallel |-> parallel,
   dtype |-> dtype, param_dtype |-> param_dtype,
   output_router_logits |-> output_router_logits, output_attentions |-> FALSE]

Configs ==
  { Config("mistral",  FALSE, 0, FALSE, "float32",  "float32",  FALSE),
    Config("mistral",  FALSE, 0, FALSE, "bfloat16", "float32",  FALSE),
    Config("mistral",  TRUE,  0, FALSE, "bfloat16", "bfloat16", FALSE),
    Config("gpt_neox", TRUE,  0, TRUE,  "bfloat16", "float32",  FALSE),
    Config("gpt_neox", FALSE, 1, FALSE, "float32",  "float32",  FALSE),
    Config("dbrx",     FALSE, 0, FALSE, "bfloat16", "float32",  FALSE),
    Config("dbrx",     FALSE, 0, FALSE, "float32",  "float32",  TRUE) }

\* fill index of a session's cache (that of its first view)
FillOf(c) == Get(c[1]).index

\* the n tokens that follow the b tokens already fed
Ids(b, n) == [i \in 1..n |-> TokenAt(b + i - 1)]

Args(ids, embeds, mask, pos, past) ==
  [input_ids |-> ids, inputs_embeds |-> embeds, attention_mask |-> mask,
   position_ids |-> pos, past |-> past,
   output_router_logits |-> None, output_attentions |-> None, return_dict |-> TRUE]

\* the same call with output_router_logits, output_attentions and return_dict
\* passed explicitly
OutputArgs(in) ==
  { [in EXCEPT !.output_router_logits = orl, !.output_attentions = oa,
               !.return_dict = rd] :
      orl \in {None, Some(TRUE), Some(FALSE)}, oa \in {None, Some(TRUE)},
      rd \in BOOLEAN }

Lengths == 1..(MaxPos + 1)

\* attention_mask: omitted, or one 0/1 entry per token
Masks(n) == {None} \cup {Some(m) : m \in [1..n -> {0, 1}]}

\* attention_mask of a decode call: omitted, or one token marked as padding
PadMasks(n) == {None} \cup {Some([i \in 1..n |-> IF i = k THEN 0 ELSE 1]) : k \in 1..n}

\* position_ids: omitted, or the absolute positions of the n tokens
Positions(b, n) == {None, Some([i \in 1..n |-> b + i - 1])}

\* the two contradictory argument combinations
BadArgs(b, ns, past) ==
  { Args(Some(Ids(b, n)), Some(GivenEmbeds(Ids(b, n))), None, None, past) : n \in ns }
    \cup { Args(None, None, None, None, past) }

\* training-style calls: ids with any padding mask, or embeddings
NoCacheInputs ==
  UNION { { Args(Some(Ids(0, n)), None, m, None, None) : m \in Masks(n) } : n \in Lengths }
    \cup { Args(None, Some(GivenEmbeds(Ids(0, n))), None, None, None) : n \in Lengths }
    \cup BadArgs(0, Lengths, None)
    \cup OutputArgs(Args(Some(Ids(0, 1)), None, None, None, None))

\* generation-style calls on session s when b tokens are cached: the next n tokens
CachedInputs(b, s) ==
  UNION { { Args(Some(Ids(b, n)), None, mp[1], mp[2], Some(s)) :
            mp \in PadMasks(n) \X Positions(b, n) } : n \in Lengths }
    \cup BadArgs(b, {1}, Some(s))

\* ------------------------------------------------------------ initial state
NoArgs == Args(None, None, None, None, None)

NoCall ==
  [op |-> "init", in |-> NoArgs, before |-> <<>>, after |-> <<>>, err |-> "none",
   errArgs |-> <<>>, trace |-> <<>>, biases |-> <<>>, attns |-> <<>>,
   first |-> <<>>, hidden |-> <<>>, logits |-> <<>>,
   attentions |-> None, io |-> <<>>,
   rngs0 |-> [params |-> 0, dropout |-> 0], lm_head0 |-> "init",
   logits_dtype |-> None, aux_loss |-> None, router_logits |-> <<>>]

NoHist == [n |-> 0, plain |-> TRUE, posGiven |-> TRUE, attns |-> <<>>]

Solo0 == [cache |-> init_cache(NumLayers), rngs |-> [params |-> 0, dropout |-> 0],
          lm_head |-> "init", logits |-> <<>>]

NoMoe == [op |-> "init"]

Init ==
  /\ cfg \in Configs
  /\ cache = [s \in Sessions |-> init_cache(NumLayers)]
  /\ rngs = [params |-> 0, dropout |-> 0]
  /\ lm_head = "init"
  /\ calls = 0
  /\ last = NoCall
  /\ hist = [s \in Sessions |-> NoHist]
  /\ solo = [s \in Sessions |-> Solo0]
  /\ moe = NoMoe

\* ------------------------------------------------------------ forward call
\* the record kept of a call
CallRecord(in, before, w) ==
  [op |-> "call", in |-> in, before |-> before, after |-> w.model.views,
   err |-> w.model.err, errArgs |-> w.model.errArgs, trace |-> w.model.trace,
   biases |-> w.model.biases, attns |-> w.model.attns, first |-> w.model.first,
   hidden |-> w.model.hidden, logits |-> w.logits,
   attentions |-> w.model.attentions, io |-> w.model.io,
   rngs0 |-> rngs, lm_head0 |-> lm_head,
   logits_dtype |-> w.logits_dtype, aux_loss |-> w.aux_loss,
   router_logits |-> w.router_logits]

\* the decode history of a session after a call that wrote its cache
NextHist(h, in, w) ==
  LET plain == /\ h.plain
               /\ in.input_ids # None
               /\ Len(Get(in.input_ids)) = 1
               /\ in.attention_mask = None
  IN [n |-> h.n + 1,
      plain |-> plain,
      posGiven |-> h.posGiven /\ in.position_ids # None,
      attns |-> IF plain
                  THEN Append(h.attns, [l \in 1..NumLayers |-> w.model.attns[l][1]])
                  ELSE <<>>]

\* one forward pass of the causal-LM wrapper, optionally over a session's cache
ForwardCore(in) ==
  LET before == IF in.past = None THEN init_empty(NumLayers) ELSE cache[Get(in.past)]
      pkv == IF in.past = None THEN None ELSE Some(cache[Get(in.past)])
  IN \E w \in {ForCausalLMCall(in, pkv, rngs, lm_head, cfg)} :
     /\ calls < MaxCalls
     /\ cache' = IF in.past = None THEN cache
                 ELSE [cache EXCEPT ![Get(in.past)] = w.model.views]
     /\ rngs' = w.model.rngs
     /\ lm_head' = w.lm_head
     /\ calls' = IF w.model.trace # <<>> THEN calls + 1 ELSE calls
     /\ last' = CallRecord(in, before, w)
     /\ hist' = IF in.past # None /\ w.model.err = "none"
                  THEN [hist EXCEPT ![Get(in.past)] = NextHist(@, in, w)]
                  ELSE hist
     /\ UNCHANGED <<cfg, moe>>

\* training-style call, made before the generation session starts: no cache is passed
ForwardNoCache ==
  /\ FillOf(cache["s1"]) = 0
  /\ \E in \in NoCacheInputs : ForwardCore(in)
  /\ UNCHANGED solo

\* generation-style call: the cache of session s1 is passed
ForwardCached ==
  /\ \E in \in CachedInputs(FillOf(cache["s1"]), "s1") : ForwardCore(in)
  /\ UNCHANGED solo

Next == ForwardNoCache \/ ForwardCached

Spec == Init /\ [][Next]_vars

\* ------------------------------------------------------------ two sessions, one model
\* the same call made on a model that only session s has ever called
SoloCall(so, in) ==
  LET kept(w) == [cache |-> w.model.views, rngs |-> w.model.rngs,
                  lm_head |-> w.lm_head, logits |-> w.logits]
  IN kept(ForCausalLMCall(in, Some(so.cache), so.rngs, so.lm_head, cfg))

\* decode calls of a session: the next n tokens with their absolute positions
SessionInputs(b, s) ==
  UNION { { Args(Some(Ids(b, n)), None, None, ps, Some(s)) : ps \in Positions(b, n) } :
          n \in 1..MaxCacheLen }

\* session s makes its next forward call on the shared model
SessionForward(s) ==
  \E in \in SessionInputs(FillOf(cache[s]), s) :
    /\ ForwardCore(in)
    /\ solo' = [solo EXCEPT ![s] = SoloCall(@, in)]

NextSessions == \E s \in Sessions : SessionForward(s)

SpecSessions == Init /\ [][NextSessions]_vars

\* ------------------------------------------------------------ DBRX router and experts
Experts == 0..(NumExperts - 1)

\* a batch of B rows of S token ids, x[b][s]
Batch(B, S) == [b \in 1..B |-> [s \in 1..S |-> TokenAt((b - 1) * S + (s - 1))]]

\* projection weights of the router: kernel <<a, b>> gives token tok the logit
\* (a * tok + b * e) mod (MaxLogit + 1) for expert e
RouterKernels == (0..MaxLogit) \X (0..MaxLogit)

\* self.layer(x): one logit per expert
RouterLayer(kernel, tok) ==
  [e \in Experts |-> (kernel[1] * tok + kernel[2] * e) % (MaxLogit + 1)]

\* the exponential inside softmax, to base 2: positive and strictly increasing
Exp(l) == 2 ^ l

RECURSIVE SumOver(_, _)
SumOver(f, S) ==
  IF S = {} THEN 0
  ELSE LET e == CHOOSE e \in S : TRUE IN f[e] + SumOver(f, S \ {e})

\* jax.nn.softmax over the experts; a weight [num, p, rad] is num / rad^(1/p)
softmax(logits) ==
  LET n == [e \in DOMAIN logits |-> Exp(logits[e])]
  IN [e \in DOMAIN logits |-> [num |-> n[e], p |-> 1, rad |-> SumOver(n, DOMAIN logits)]]

RECURSIVE TopKFrom_TiesToHigherIndex(_, _, _)
TopKFrom_TiesToHigherIndex(w, k, S) ==
  IF k = 0 THEN <<>>
  ELSE LET e == CHOOSE e \in S : \A f \in S :
                  w[e].num > w[f].num \/ (w[e].num = w[f].num /\ e >= f)
       IN <<e>> \o TopKFrom_TiesToHigherIndex(w, k - 1, S \ {e})

\* a top-k that prefers the higher index among equal weights
top_k_TiesToHigherIndex(w, k) ==
  LET idx == TopKFrom_TiesToHigherIndex(w, k, DOMAIN w)
  IN [values |-> [j \in 1..k |-> w[idx[j]]], indices |-> idx]

\* the largest entry among S, the lower index among equal entries
ArgMax(w, S) ==
  CHOOSE e \in S : \A f \in S : w[e].num > w[f].num \/ (w[e].num = w[f].num /\ e <= f)

RECURSIVE TopKFrom(_, _, _)
TopKFrom(w, k, S) ==
  IF k = 0 THEN <<>>
  ELSE LET e == ArgMax(w, S) IN <<e>> \o TopKFrom(w, k - 1, S \ {e})

\* jax.lax.top_k: the k largest entries in descending order and their indices
top_k(w, k) ==
  LET idx == TopKFrom(w, k, DOMAIN w)
  IN [values |-> [j \in 1..k |-> w[idx[j]]], indices |-> idx]

\* a renormalisation that divides by the sum whatever the configured order
Normalize_SumAlways(top_weights, ord) ==
  LET k == Len(top_weights)
      n == [j \in 1..k |-> top_weights[j].num]
  IN [j \in 1..k |-> [num |-> n[j], p |-> 1, rad |-> SumOver(n, 1..k)]]

\* top_weights / jnp.linalg.norm(top_weights, ord, axis=-1, keepdims=True)
Normalize(top_weights, ord) ==
  LET k == Len(top_weights)
      pw == [j \in 1..k |-> top_weights[j].num ^ ord]
  IN [j \in 1..k |-> [num |-> top_weights[j].num, p |-> ord, rad |-> SumOver(pw, 1..k)]]

\* the same numbers laid out column-major over the (token, slot) array
UniformAssignment_ColumnMajor(B, S, k) ==
  [b \in 1..B |-> [s \in 1..S |-> [j \in 1..k |->
     ((j - 1) * B * S + (b - 1) * S + (s - 1)) % NumExperts]]]

\* (arange(prod(top_experts.shape)) % moe_num_experts).reshape(top_experts.shape)
UniformAssignment(B, S, k) ==
  [b \in 1..B |-> [s \in 1..S |-> [j \in 1..k |->
     (((b - 1) * S + (s - 1)) * k + (j - 1)) % NumExperts]]]

\* DbrxRouter.jitter; make_rng is what self.make_rng("params") gives: nothing
\* where the module class defines no such method, else the noise drawn
DbrxRouterJitter(f, make_rng) ==
  IF f.moe_jitter_eps = None THEN [err |-> "RuntimeError", noise |-> 1]
  ELSE IF make_rng = None THEN [err |-> "AttributeError", noise |-> 1]
  ELSE [err |-> "none", noise |-> Get(make_rng)]

\* a router that keeps the top-k indices whatever uniform_expert_assignment says
DbrxRouterExperts_NoOverride(indices, B, S, f) == indices

\* DbrxRouter.__call__: the expert indices returned
DbrxRouterExperts(indices, B, S, f) ==
  IF f.uniform_expert_assignment THEN UniformAssignment(B, S, f.moe_top_k) ELSE indices

\* DbrxRouter.__call__
DbrxRouterCall(x, deterministic, kernel, make_rng, f) ==
  LET B == Len(x)
      S == Len(x[1])
      jit == IF ~deterministic /\ f.moe_jitter_eps # None
               THEN DbrxRouterJitter(f, make_rng)
               ELSE [err |-> "none", noise |-> 1]
      weights == [b \in 1..B |-> [s \in 1..S |->
                    softmax(RouterLayer(kernel, x[b][s] * jit.noise))]]
      top == [b \in 1..B |-> [s \in 1..S |-> top_k(weights[b][s], f.moe_top_k)]]
  IN IF jit.err # "none"
       THEN [err |-> jit.err, weights |-> <<>>, top_weights |-> <<>>,
             top_experts |-> <<>>]
       ELSE [err |-> "none",
             weights |-> weights,
             top_weights |->
               [b \in 1..B |-> [s \in 1..S |->
                  IF f.moe_normalize_expert_weights # None
                    THEN Normalize(top[b][s].values, Get(f.moe_normalize_expert_weights))
                    ELSE top[b][s].values]],
             top_experts |->
               DbrxRouterExperts([b \in 1..B |-> [s \in 1..S |-> top[b][s].indices]],
                                 B, S, f)]

\* an expert bank that looks only at the first routing slot of each token
DbrxExpertsCall_FirstSlotOnly(x, weights, top_weights, top_experts) ==
  [b \in 1..Len(x) |-> [s \in 1..Len(x[b]) |->
     [index \in Experts |->
        [coef |-> IF index = top_experts[b][s][1] THEN top_weights[b][s][1].num ELSE 0,
         p |-> top_weights[b][s][1].p, rad |-> top_weights[b][s][1].rad,
         mlp |-> [expert |-> index, x |-> x[b][s]]]]]]

\* DbrxExperts.__call__: for every expert index, the masked sum of the gate
\* weights times self.mlp(x, index); the output is kept as its terms, one per expert
DbrxExpertsCall(x, weights, top_weights, top_experts) ==
  [b \in 1..Len(x) |-> [s \in 1..Len(x[b]) |->
     [index \in Experts |->
        [coef |-> SumOver([j \in 1..Len(top_experts[b][s]) |->
                             IF index = top_experts[b][s][j]
                               THEN top_weights[b][s][j].num ELSE 0],
                          1..Len(top_experts[b][s])),
         p |-> top_weights[b][s][1].p, rad |-> top_weights[b][s][1].rad,
         mlp |-> [expert |-> index, x |-> x[b][s]]]]]]

\* DbrxFFN.__call__
DbrxFFNCall(x, kernel, f) ==
  LET route(r) ==
        [router |-> r, weights |-> r.weights,
         out |-> DbrxExpertsCall(x, r.weights, r.top_weights, r.top_experts)]
  IN route(DbrxRouterCall(x, TRUE, kernel, None, f))

\* the ffn_config part of a DbrxConfig
FFNConfigs ==
  [moe_num_experts : {NumExperts},
   moe_top_k : 1..NumExperts,
   moe_normalize_expert_weights : {None, Some(1), Some(2)},
   uniform_expert_assignment : BOOLEAN,
   moe_jitter_eps : {None, Some("eps")}]

RouterConfigs == {[arch |-> "dbrx", ffn_config |-> f] : f \in FFNConfigs}

\* what self.make_rng("params") may give a router
MakeRng == {None, Some(1), Some(2)}

InitRouter ==
  /\ cfg \in RouterConfigs
  /\ cache = [s \in Sessions |-> init_cache(NumLayers)]
  /\ rngs = [params |-> 0, dropout |-> 0]
  /\ lm_head = "init"
  /\ calls = 0
  /\ last = NoCall
  /\ hist = [s \in Sessions |-> NoHist]
  /\ solo = [s \in Sessions |-> Solo0]
  /\ moe = NoMoe

\* one call of the router of a block
RouterCall ==
  /\ moe.op = "init"
  /\ \E B \in 1..MaxBatch, S \in 1..MaxPos, kernel \in RouterKernels,
        deterministic \in BOOLEAN, make_rng \in MakeRng :
       moe' = [op |-> "router", x |-> Batch(B, S), kernel |-> kernel,
               deterministic |-> deterministic,
               res |-> DbrxRouterCall(Batch(B, S), deterministic, kernel, make_rng,
                                      cfg.ffn_config),
               out |-> <<>>, kernel2 |-> kernel, res2 |-> <<>>, out2 |-> <<>>]
  /\ UNCHANGED <<cfg, cache, rngs, lm_head, calls, last, hist, solo>>

\* one call of the MoE layer, and the same call on a layer whose router has
\* other projection weights
FFNCall ==
  /\ moe.op = "init"
  /\ \E B \in 1..MaxBatch, S \in 1..MaxPos, kernel \in RouterKernels,
        kernel2 \in RouterKernels :
       /\ kernel2[1] = kernel[1] \/ kernel2[2] = kernel[2]
       /\ \E a \in {DbrxFFNCall(Batch(B, S), kernel, cfg.ffn_config)},
             a2 \in {DbrxFFNCall(Batch(B, S), kernel2, cfg.ffn_config)} :
            moe' = [op |-> "ffn", x |-> Batch(B, S), kernel |-> kernel,
                    deterministic |-> TRUE, res |-> a.router, out |-> a.out,
                    kernel2 |-> kernel2, res2 |-> a2.router, out2 |-> a2.out]
  /\ UNCHANGED <<cfg, cache, rngs, lm_head, calls, last, hist, solo>>

NextRouter == RouterCall \/ FFNCall

SpecRouter == InitRouter /\ [][NextRouter]_vars

\* ------------------------------------------------------------ sequence classification
\* a pooling check with the test on the padding token inverted
MistralPoolingError_PadDefined(pad_token_id, batch_size) ==
  pad_token_id # None /\ batch_size # 1

\* MistralForSequenceClassification.__call__: the check before pooling
MistralPoolingError(pad_token_id, batch_size) ==
  pad_token_id = None /\ batch_size # 1

\* jnp.argmax(jnp.equal(row, pad)): the first position (from 0) holding pad, 0 if none
ArgMaxEqual(row, pad) ==
  IF \E s \in 1..Len(row) : row[s] = pad
    THEN (CHOOSE s \in 1..Len(row) :
            row[s] = pad /\ \A s2 \in 1..(s - 1) : row[s2] # pad) - 1
    ELSE 0

\* logits[arange(batch_size), sequence_lengths]: a negative index counts from the end
IndexAt(row, i) == IF i < 0 THEN row[Len(row) + i + 1] ELSE row[i + 1]

\* MistralForSequenceClassification.__call__ on a batch of rows
MistralForSequenceClassificationCall(input_ids, inputs_embeds, return_dict, r, c) ==
  LET batch_size == IF input_ids # None THEN Len(Get(input_ids))
                    ELSE Len(Get(inputs_embeds))
      row(b) == Args(IF input_ids = None THEN None ELSE Some(Get(input_ids)[b]),
                     IF inputs_embeds = None THEN None ELSE Some(Get(inputs_embeds)[b]),
                     None, None, None)
      transformer_outputs == [b \in 1..batch_size |-> MistralModelCall(row(b), None, r)]
      logits == [b \in 1..batch_size |->
                   [s \in 1..Len(transformer_outputs[b].hidden) |->
                      [score |-> transformer_outputs[b].hidden[s]]]]
      sequence_lengths ==
        [b \in 1..batch_size |->
           IF c.pad_token_id = None THEN -1
           ELSE IF input_ids # None
             THEN (ArgMaxEqual(Get(input_ids)[b], Get(c.pad_token_id)) - 1)
                    % Len(Get(input_ids)[b])
           ELSE -1]
  IN IF transformer_outputs[1].err # "none"
       THEN [err |-> transformer_outputs[1].err, logits |-> <<>>, pooled_logits |-> None]
     ELSE IF MistralPoolingError(c.pad_token_id, batch_size)
       THEN [err |-> "ValueError", logits |-> logits, pooled_logits |-> None]
     ELSE [err |-> "none", logits |-> logits,
           pooled_logits |-> Some([b \in 1..batch_size |->
                                     IndexAt(logits[b], sequence_lengths[b])])]

\* a MistralConfig with or without a padding token
ClassifierConfigs ==
  { [arch |-> "mistral", tie_word_embeddings |-> FALSE, dropout |-> 0,
     parallel |-> FALSE, dtype |-> "float32", param_dtype |-> "float32",
     output_router_logits |-> FALSE, output_attentions |-> FALSE,
     pad_token_id |-> pad] :
      pad \in {None} \cup {Some(t) : t \in 1..VocabSize} }

\* a batch of B rows: row 1 is the given row, row b the same row with every
\* token id moved up by b - 1
Rows(row, B) ==
  [b \in 1..B |-> [s \in 1..Len(row) |-> ((row[s] - 1 + (b - 1)) % VocabSize) + 1]]

InitClassifier ==
  /\ cfg \in ClassifierConfigs
  /\ cache = [s \in Sessions |-> init_cache(NumLayers)]
  /\ rngs = [params |-> 0, dropout |-> 0]
  /\ lm_head = "init"
  /\ calls = 0
  /\ last = NoCall
  /\ hist = [s \in Sessions |-> NoHist]
  /\ solo = [s \in Sessions |-> Solo0]
  /\ moe = NoMoe

\* one call of the classification head, given ids or given embeddings
ClassifyCall ==
  /\ moe.op = "init"
  /\ \E B \in 1..MaxBatch, S \in Lengths, return_dict \in BOOLEAN, embeds \in BOOLEAN :
       \E row \in [1..S -> 1..VocabSize] :
         LET ids == Rows(row, B)
             input_ids == IF embeds THEN None ELSE Some(ids)
             inputs_embeds == IF embeds
                                THEN Some([b \in 1..B |-> GivenEmbeds(ids[b])])
                                ELSE None
         IN moe' = [op |-> "classify", input_ids |-> input_ids,
                    inputs_embeds |-> inputs_embeds, batch_size |-> B,
                    sequence_length |-> S, return_dict |-> return_dict,
                    res |-> MistralForSequenceClassificationCall(
                              input_ids, inputs_embeds, return_dict, rngs, cfg)]
  /\ UNCHANGED <<cfg, cache, rngs, lm_head, calls, last, hist, solo>>

NextClassifier == ClassifyCall

SpecClassifier == InitClassifier /\ [][NextClassifier]_vars

\* ------------------------------------------------------------ attention construction
\* the head-group ratio both attention constructors compute: a floor division,
\* and an assert on the head counts only when the ratio is 1
AttentionInit(num_attention_heads, num_key_value_heads) ==
  IF num_key_value_heads = 0
    THEN [err |-> "ZeroDivisionError", num_key_value_groups |-> None]
    ELSE LET num_key_value_groups == num_attention_heads \div num_key_value_heads
         IN IF num_key_value_groups = 1 /\ num_attention_heads # num_key_value_heads
              THEN [err |-> "AssertionError", num_key_value_groups |-> None]
              ELSE [err |-> "none", num_key_value_groups |-> Some(num_key_value_groups)]

\* MistralAttention.__init__ on config.num_attention_heads, config.num_key_value_heads
MistralAttentionInit(c) == AttentionInit(c.num_attention_heads, c.num_key_value_heads)

\* DbrxAttention.__init__ on config.n_heads, config.attn_config.kv_n_heads
DbrxAttentionInit(c) == AttentionInit(c.n_heads, c.attn_config.kv_n_heads)

\* head counts a configuration can carry
HeadCounts == 1..MaxHeads
KVHeadCounts == 0..MaxHeads

InitAttention ==
  /\ cfg \in {c \in Configs : c.arch \in {"mistral", "dbrx"}}
  /\ cache = [s \in Sessions |-> init_cache(NumLayers)]
  /\ rngs = [params |-> 0, dropout |-> 0]
  /\ lm_head = "init"
  /\ calls = 0
  /\ last = NoCall
  /\ hist = [s \in Sessions |-> NoHist]
  /\ solo = [s \in Sessions |-> Solo0]
  /\ moe = NoMoe

\* MistralAttention(config, rngs=...)
ConstructMistralAttention ==
  /\ moe.op = "init"
  /\ cfg.arch = "mistral"
  /\ \E q \in HeadCounts, kv \in KVHeadCounts :
       moe' = [op |-> "attention_init", num_attention_heads |-> q,
               num_key_value_heads |-> kv,
               res |-> MistralAttentionInit([num_attention_heads |-> q,
                                             num_key_value_heads |-> kv])]
  /\ UNCHANGED <<cfg, cache, rngs, lm_head, calls, last, hist, solo>>

\* DbrxAttention(config, rngs=...)
ConstructDbrxAttention ==
  /\ moe.op = "init"
  /\ cfg.arch = "dbrx"
  /\ \E q \in HeadCounts, kv \in KVHeadCounts :
       moe' = [op |-> "attention_init", num_attention_heads |-> q,
               num_key_value_heads |-> kv,
               res |-> DbrxAttentionInit([n_heads |-> q,
                                          attn_config |-> [kv_n_heads |-> kv]])]
  /\ UNCHANGED <<cfg, cache, rngs, lm_head, calls, last, hist, solo>>

NextAttention == ConstructMistralAttention \/ ConstructDbrxAttention

SpecAttention == InitAttention /\ [][NextAttention]_vars

\* ------------------------------------------------------------ Timer
\* Timer.__init__
NewTimer == [elapsed |-> 0, started |-> FALSE, start_time |-> 0]

\* the outcome of one Timer method: the timer after it, the error raised, the value returned
TimerResult(t, err, ret) == [t |-> t, err |-> err, ret |-> ret]

\* Timer.start at clock reading now
TimerStart(t, now) ==
  IF t.started
    THEN TimerResult(t, "RuntimeError", None)
    ELSE TimerResult([t EXCEPT !.start_time = now, !.started = TRUE], "none", None)

\* a stop that does not look at started
TimerStop_Unchecked(t, now) ==
  TimerResult([t EXCEPT !.elapsed = @ + (now - t.start_time), !.started = FALSE],
              "none", None)

\* Timer.stop at clock reading now
TimerStop(t, now) ==
  IF ~t.started
    THEN TimerResult(t, "RuntimeError", None)
    ELSE TimerResult([t EXCEPT !.elapsed = @ + (now - t.start_time), !.started = FALSE],
                     "none", None)

\* Timer.reset
TimerReset(t) == TimerResult(NewTimer, "none", None)

\* Timer.elapsed_time(reset) at clock reading now
TimerElapsedTime(t, reset, now) ==
  LET stopped == IF t.started THEN TimerStop(t, now).t ELSE t
      total_time == stopped.elapsed
  IN TimerResult(IF reset THEN TimerReset(stopped).t ELSE stopped, "none",
                 Some(total_time))

\* one method call as the caller sees it: the timer before and after it
Step(call, reset, before, r) ==
  [call |-> call, reset |-> reset, err |-> r.err, ret |-> r.ret,
   before |-> before, after |-> r.t]

\* time.time() read dt ticks after the last reading
Clock(now, dt) == IF now + dt > MaxTime THEN MaxTime ELSE now + dt
Ticks == 0..1

InitTimer ==
  /\ cfg \in Configs
  /\ cache = [s \in Sessions |-> init_cache(NumLayers)]
  /\ rngs = [params |-> 0, dropout |-> 0]
  /\ lm_head = "init"
  /\ calls = 0
  /\ last = NoCall
  /\ hist = [s \in Sessions |-> NoHist]
  /\ solo = [s \in Sessions |-> Solo0]
  /\ moe = [op |-> "timer", timer |-> NewTimer, now |-> 0, steps |-> <<>>]

\* the timer and the clock after a call, with the calls it made
AfterCalls(t, now, steps) ==
  /\ moe' = [op |-> "timer", timer |-> t, now |-> now, steps |-> steps]
  /\ UNCHANGED <<cfg, cache, rngs, lm_head, calls, last, hist, solo>>

\* timer.start()
StartTimer ==
  /\ moe.op = "timer"
  /\ \E dt \in Ticks :
       LET now == Clock(moe.now, dt)
           r == TimerStart(moe.timer, now)
       IN AfterCalls(r.t, now, <<Step("start", FALSE, moe.timer, r)>>)

\* timer.stop()
StopTimer ==
  /\ moe.op = "timer"
  /\ \E dt \in Ticks :
       LET now == Clock(moe.now, dt)
           r == TimerStop(moe.timer, now)
       IN AfterCalls(r.t, now, <<Step("stop", FALSE, moe.timer, r)>>)

\* timer.reset()
ResetTimer ==
  /\ moe.op = "timer"
  /\ LET r == TimerReset(moe.timer)
     IN AfterCalls(r.t, moe.now, <<Step("reset", FALSE, moe.timer, r)>>)

\* timer.elapsed_time(reset=...)
ReadElapsedTime ==
  /\ moe.op = "timer"
  /\ \E dt \in Ticks, reset \in BOOLEAN :
       LET now == Clock(moe.now, dt)
           r == TimerElapsedTime(moe.timer, reset, now)
       IN AfterCalls(r.t, now, <<Step("elapsed_time", reset, moe.timer, r)>>)

\* with timers.timed(name, log, reset): start, the body, then stop and, when
\* logging, elapsed_time in the finally clause
Timed ==
  /\ moe.op = "timer"
  /\ \E dt1 \in Ticks, dt2 \in Ticks, log \in BOOLEAN, reset \in BOOLEAN :
       LET now1 == Clock(moe.now, dt1)
           now2 == Clock(now1, dt2)
           s1 == TimerStart(moe.timer, now1)
           s2 == TimerStop(s1.t, now2)
           s3 == TimerElapsedTime(s2.t, reset, now2)
           steps12 == <<Step("start", FALSE, moe.timer, s1), Step("stop", FALSE, s1.t, s2)>>
       IN IF log /\ s2.err = "none"
            THEN AfterCalls(s3.t, now2,
                            Append(steps12, Step("elapsed_time", reset, s2.t, s3)))
            ELSE AfterCalls(s2.t, now2, steps12)

NextTimer == StartTimer \/ StopTimer \/ ResetTimer \/ ReadElapsedTime \/ Timed

SpecTimer == InitTimer /\ [][NextTimer]_vars

\* ------------------------------------------------------------ NF4 quantization
\* float32 values are integers in units of 2^-28: every table level and every
\* boundary is a whole number of units
One == 268435456

\* NF4_TABLE as float32: level c is NF4_TABLE[c + 1]
NF4_TABLE ==
  << -268435456, -186882832, -140948224, -106009856, -76354152, -49599740,
     -24441058, 0, 21362174, 43199372, 66065268, 90708432, 118302144,
     151026352, 194067248, 268435456 >>

\* -float("inf"), below every value
NegInf == -2147483647

\* NF4_BOUNDARIES as float32: the decimal literals rounded to float32
NF4_BOUNDARIES ==
  << NegInf, -227659136, -163915520, -123479040, -91182000, -62976944,
     -37020400, -12220529, 10681087, 32280772, 54632320, 78386848, 104505288,
     134664256, 172546800, 231251360 >>

\* a float32 that is a number, and the one that is not
Float(x) == [num |-> x]
NaN == [nan |-> TRUE]

Abs(x) == IF x < 0 THEN -x ELSE x

\* x / absmax in float32, for the operands whose quotient is exact: 0 / 0 is
\* NaN, x / x is 1, and a power-of-two absmax only shifts the exponent
Divide(x, absmax) ==
  IF absmax = 0 THEN NaN
  ELSE IF x = 0 THEN Float(0)
  ELSE IF x = absmax THEN Float(One)
  ELSE IF x = -absmax THEN Float(-One)
  ELSE Float(x \div (absmax \div One))

\* level * absmax in float32, for the operands whose product is exact
Multiply(level, absmax) ==
  IF level = 0 \/ absmax = 0 THEN 0
  ELSE IF level = One THEN absmax
  ELSE IF level = -One THEN -absmax
  ELSE level * (absmax \div One)

\* jnp.searchsorted(a, v) with side="left": the number of entries below v; NaN
\* sorts after every entry
searchsorted(a, v) ==
  IF v = NaN THEN Len(a) ELSE Cardinality({i \in 1..Len(a) : a[i] < v.num})

RECURSIVE BitOr(_, _)
\* a | b on non-negative integers
BitOr(a, b) ==
  IF a = 0 THEN b
  ELSE IF b = 0 THEN a
  ELSE 2 * BitOr(a \div 2, b \div 2) + (IF a % 2 = 1 \/ b % 2 = 1 THEN 1 ELSE 0)

\* a packing with the first code of each pair in the low nibble
Pack_LowFirst(quantized) ==
  [i \in 1..(Len(quantized) \div 2) |->
     BitOr(quantized[2 * i] * 16, quantized[2 * i - 1]) % 256] \o <<>>

\* quantized.reshape(-1, 2); (quantized[:, 0] << 4) | quantized[:, 1]; astype(uint8)
Pack(quantized) ==
  [i \in 1..(Len(quantized) \div 2) |->
     BitOr(quantized[2 * i - 1] * 16, quantized[2 * i]) % 256] \o <<>>

\* high = (p >> 4) & 0xF, low = p & 0xF, stacked pairwise and flattened
Unpack(packed_values) ==
  [i \in 1..(2 * Len(packed_values)) |->
     IF i % 2 = 1 THEN (packed_values[(i + 1) \div 2] \div 16) % 16
     ELSE packed_values[i \div 2] % 16] \o <<>>

\* an array: its shape and its elements in row-major order
Tensor(shape, data) == [shape |-> shape, data |-> data]

\* the block (from 1) that flat position i (from 1) falls in
BlockOf(i, block_size) == ((i - 1) \div block_size) + 1

\* jnp.max(jnp.abs(blocks), axis=1) for block b
BlockAbsMax(data, b, block_size) ==
  LET mags == {Abs(data[i]) : i \in ((b - 1) * block_size + 1)..(b * block_size)}
  IN CHOOSE m \in mags : \A m2 \in mags : m2 <= m

\* single_quantize_and_pack_nf4 on the elements of a 2-D array
single_quantize_and_pack_nf4(data, block_size) ==
  LET n == Len(data)
      failed == [err |-> "TypeError", packed |-> <<>>, absmax |-> <<>>,
                 normalized |-> <<>>, quantized |-> <<>>]
  IN IF n % block_size # 0 THEN failed
     ELSE LET absmax == [b \in 1..(n \div block_size) |->
                           BlockAbsMax(data, b, block_size)] \o <<>>
              normalized == [i \in 1..n |->
                               Divide(data[i], absmax[BlockOf(i, block_size)])] \o <<>>
              quantized == [i \in 1..n |->
                              searchsorted(NF4_BOUNDARIES, normalized[i]) - 1] \o <<>>
          IN IF n % 2 # 0 THEN failed
             ELSE [err |-> "none", packed |-> Pack(quantized), absmax |-> absmax,
                   normalized |-> normalized, quantized |-> quantized]

\* single_dequantize_nf4: the result has shape (num_blocks, block_size)
single_dequantize_nf4(packed_values, absmax, block_size) ==
  LET unpacked == Unpack(packed_values)
      num_blocks == Len(absmax)
  IN IF num_blocks * block_size # Len(unpacked)
       THEN [err |-> "TypeError", scaled |-> Tensor(<<>>, <<>>)]
       ELSE [err |-> "none",
             scaled |-> Tensor(<<num_blocks, block_size>>,
                               [i \in 1..Len(unpacked) |->
                                  Multiply(NF4_TABLE[unpacked[i] + 1],
                                           absmax[BlockOf(i, block_size)])] \o <<>>)]

\* quantize_and_pack_nf4 / dequantize_nf4 on an array of at most two dimensions
quantize_and_pack_nf4(blocks, block_size) ==
  single_quantize_and_pack_nf4(blocks.data, block_size)

dequantize_nf4(packed_values, absmax, block_size) ==
  single_dequantize_nf4(packed_values, absmax, block_size)

\* nnx.Linear with a given kernel and, when use_bias, a given bias
Linear(in_features, out_features, use_bias, kernel, bias) ==
  [in_features |-> in_features, out_features |-> out_features,
   use_bias |-> use_bias, kernel |-> kernel, bias |-> bias]

\* the block_size default of LinearNF4.__init__
DefaultBlockSize == 64

\* a conversion that keeps the constructor's default block size on the instance
from_linear_DefaultBlockSize(linear, block_size) ==
  LET q == quantize_and_pack_nf4(linear.kernel, block_size)
  IN [err |-> q.err, in_features |-> linear.in_features,
      out_features |-> linear.out_features, use_bias |-> linear.use_bias,
      block_size |-> DefaultBlockSize, packed_kernel |-> q.packed, scales |-> q.absmax,
      bias |-> IF linear.use_bias THEN linear.bias ELSE None]

\* LinearNF4.from_linear
from_linear(linear, block_size) ==
  LET q == quantize_and_pack_nf4(linear.kernel, block_size)
  IN [err |-> q.err, in_features |-> linear.in_features,
      out_features |-> linear.out_features, use_bias |-> linear.use_bias,
      block_size |-> block_size, packed_kernel |-> q.packed, scales |-> q.absmax,
      bias |-> IF linear.use_bias THEN linear.bias ELSE None]

\* LinearNF4._dequantize_kernel: dequantize_nf4(...).reshape(in_features, out_features)
dequantize_kernel(self) ==
  LET d == dequantize_nf4(self.packed_kernel, self.scales, self.block_size)
  IN IF d.err # "none" THEN d
     ELSE IF Len(d.scaled.data) # self.in_features * self.out_features
       THEN [err |-> "TypeError", scaled |-> Tensor(<<>>, <<>>)]
     ELSE [err |-> "none",
           scaled |-> Tensor(<<self.in_features, self.out_features>>, d.scaled.data)]

\* LinearNF4.to_linear
to_linear(self) ==
  LET d == dequantize_kernel(self)
  IN [err |-> d.err,
      linear |-> Linear(self.in_features, self.out_features, self.use_bias,
                        d.scaled, IF self.use_bias THEN self.bias ELSE None)]

\* normalized values worth probing: every level and every boundary
Probes == {NF4_TABLE[c] : c \in 1..16} \cup {NF4_BOUNDARIES[c] : c \in 2..16}

\* block scales whose float32 arithmetic is exact: 0, 1.0 and 2.0
AbsMaxes == {0, One, 2 * One}

\* a kernel of n elements: the probe times the scale at position p, and the
\* scale itself or zero everywhere else
Weights(n, p, v, a, zeros) ==
  [i \in 1..n |-> IF i = p THEN v * (a \div One) ELSE IF zeros THEN 0 ELSE a]

Features == 1..MaxFeatures
BlockSizes == 1..MaxBlockSize

\* kernels of shape (fin, fout) built from the probes
Kernels(fin, fout) ==
  { Tensor(<<fin, fout>>, Weights(fin * fout, p, v, a, zeros)) :
      p \in 1..(fin * fout), v \in Probes, a \in AbsMaxes, zeros \in BOOLEAN }

\* bias of a layer: none, or one value per output feature
Biases(fout) == {None} \cup {Some([j \in 1..fout |-> j * b]) : b \in {One, -One}}

\* plain linear layers: every shape, a probing kernel, with or without bias
Linears ==
  UNION { { Linear(fin, fout, bias # None, kernel, bias) :
              kernel \in Kernels(fin, fout), bias \in Biases(fout) } :
            fin \in Features, fout \in Features }

\* the code values packed in longer sequences
CodeSample == {0, 7, 15}

\* sequences of an even number of 4-bit codes
CodeSequences ==
  [1..2 -> 0..15] \cup UNION {[1..(2 * n) -> CodeSample] : n \in 2..MaxPairs}

InitNF4 ==
  /\ cfg = CHOOSE c \in Configs : c.arch = "mistral"
  /\ cache = [s \in Sessions |-> init_cache(NumLayers)]
  /\ rngs = [params |-> 0, dropout |-> 0]
  /\ lm_head = "init"
  /\ calls = 0
  /\ last = NoCall
  /\ hist = [s \in Sessions |-> NoHist]
  /\ solo = [s \in Sessions |-> Solo0]
  /\ moe = NoMoe

\* packing a code sequence and unpacking the bytes
PackUnpack ==
  /\ moe.op = "init"
  /\ \E quantized \in CodeSequences :
       moe' = [op |-> "pack", quantized |-> quantized, packed |-> Pack(quantized),
               unpacked |-> Unpack(Pack(quantized))]
  /\ UNCHANGED <<cfg, cache, rngs, lm_head, calls, last, hist, solo>>

\* quantize_and_pack_nf4 on a kernel, then dequantize_nf4 on its result
QuantizeDequantize ==
  /\ moe.op = "init"
  /\ \E fin \in Features, fout \in Features, block_size \in BlockSizes :
       \E W \in Kernels(fin, fout) :
         \E q \in {quantize_and_pack_nf4(W, block_size)} :
            moe' = [op |-> "quantize", W |-> W, block_size |-> block_size,
                    q |-> q,
                    d |-> IF q.err = "none"
                            THEN dequantize_nf4(q.packed, q.absmax, block_size)
                            ELSE [err |-> q.err, scaled |-> Tensor(<<>>, <<>>)]]
  /\ UNCHANGED <<cfg, cache, rngs, lm_head, calls, last, hist, solo>>

\* LinearNF4.from_linear(linear, block_size=...).to_linear()
LinearRoundTrip ==
  /\ moe.op = "init"
  /\ \E linear \in Linears, block_size \in BlockSizes :
       \E nf4 \in {from_linear(linear, block_size)} :
            moe' = [op |-> "round_trip", linear |-> linear, block_size |-> block_size,
                    nf4 |-> nf4,
                    back |-> IF nf4.err = "none" THEN to_linear(nf4)
                             ELSE [err |-> nf4.err, linear |-> linear]]
  /\ UNCHANGED <<cfg, cache, rngs, lm_head, calls, last, hist, solo>>

NextNF4 == PackUnpack \/ QuantizeDequantize \/ LinearRoundTrip

SpecNF4 == InitNF4 /\ [][NextNF4]_vars

\* ------------------------------------------------------------ properties
IsCall == last.op = "call"
GaveIds == last.in.input_ids # None
GaveEmbeds == last.in.inputs_embeds # None
UsedCache == last.in.past # None

\* number of tokens of the last call
NewTokens ==
  IF GaveIds THEN Len(Get(last.in.input_ids))
  ELSE IF GaveEmbeds THEN Len(Get(last.in.inputs_embeds)) ELSE 0

BlockEvents == {k \in 1..Len(last.trace) : last.trace[k].ev = "block"}

\* fill index of view l before / after the last call (0 when no cache was passed)
FillBefore(l) == IF UsedCache THEN Get(last.before[l]).index ELSE 0
FillAfter(l) == IF UsedCache THEN Get(last.after[l]).index ELSE NewTokens

\* C1: a call that gives both input_ids and embeddings, or neither, raises the
\* input error before any decoder block runs and leaves every cache view as it was.
C1_ContradictoryInputsFailFast ==
  (IsCall /\ GaveIds = GaveEmbeds) =>
    /\ last.err = "ValueError"
    /\ BlockEvents = {}
    /\ last.hidden = <<>>
    /\ last.after = last.before
    /\ UsedCache => cache[Get(last.in.past)] = last.before

C1_Witness ==
  /\ IsCall /\ GaveIds /\ GaveEmbeds /\ UsedCache
  /\ FillBefore(1) > 0
  /\ last.err = "ValueError"

\* C2: a call that gives exactly one of input_ids / embeddings raises no input
\* error; the blocks start from the embedding lookup of the ids, or from the given
\* embeddings.
C2_ExactlyOneInputAccepted ==
  (IsCall /\ GaveIds # GaveEmbeds) =>
    /\ last.err # "ValueError"
    /\ last.err = "none" =>
         last.first = IF GaveIds THEN embed_tokens(Get(last.in.input_ids))
                      ELSE Get(last.in.inputs_embeds)

\* C3: a call whose sequence is longer than max_position_embeddings fails with
\* an error naming the configured and the actual length, and no block output exists.
C3_TooLongSequenceFails ==
  (IsCall /\ GaveIds /\ ~GaveEmbeds /\ NewTokens > MaxPos) =>
    /\ last.err = "AssertionError"
    /\ last.errArgs = <<MaxPos, NewTokens>>
    /\ last.hidden = <<>>
    /\ last.attns = <<>>

\* C4: a call given a cache never lowers a fill index; when it returns, every
\* layer's view holds the new vectors at the old fill index and its fill index has
\* grown by the number of new tokens; after N single-token decode calls on an
\* empty cache every layer's fill index is N.
C4_FillIndexAdvances ==
  /\ (IsCall /\ UsedCache) =>
       \A l \in 1..NumLayers :
         /\ FillAfter(l) >= FillBefore(l)
         /\ cache[Get(last.in.past)][l] = last.after[l]
         /\ last.err = "none" =>
              /\ FillAfter(l) = FillBefore(l) + NewTokens
              /\ Len(Get(last.after[l]).key) = FillAfter(l)
              /\ Len(Get(last.after[l]).value) = FillAfter(l)
              /\ \A i \in 1..NewTokens :
                   /\ Get(last.after[l]).value[FillBefore(l) + i] = last.attns[l][i].q
                   /\ Get(last.after[l]).key[FillBefore(l) + i].x = last.attns[l][i].q
  /\ \A s \in Sessions :
       hist[s].plain => \A l \in 1..NumLayers : Get(cache[s][l]).index = hist[s].n

C4_Witness ==
  /\ IsCall /\ UsedCache /\ last.err = "none"
  /\ NewTokens = 1
  /\ hist["s1"].plain /\ hist["s1"].n = 2
  /\ \A l \in 1..NumLayers : FillBefore(l) = 1 /\ FillAfter(l) = 2

FullPassAttns(n) ==
  ForCausalLMCall(Args(Some(Ids(0, n)), None, None, None, None), None, rngs, lm_head,
                  cfg).model.attns

\* the attention outputs of the decode calls of session s equal those of the full pass
DecodeMatchesFullPass(s) ==
  LET n == hist[s].n
      full == FullPassAttns(n)
  IN \A p \in 1..n : \A l \in 1..NumLayers : hist[s].attns[p][l] = full[l][p]

\* C6: feeding N tokens one at a time through N calls that share a cache gives, at
\* every position, the attention output of one uncached call over the N tokens.
C6_DecodeEqualsFullPass ==
  \A s \in Sessions :
    (hist[s].plain /\ hist[s].n >= 1 /\ cfg.dropout = 0) => DecodeMatchesFullPass(s)

\* the same equivalence for decode calls that pass each token's absolute position
DecodeEqualsFullPassGivenPositions ==
  \A s \in Sessions :
    (hist[s].plain /\ hist[s].posGiven /\ hist[s].n >= 1 /\ cfg.dropout = 0)
      => DecodeMatchesFullPass(s)

\* the attention-mask entry that covers key position j of layer l in the last call
MaskAt(l, j) ==
  IF j <= FillBefore(l) THEN Get(last.before[l]).mask[j]
  ELSE IF last.in.attention_mask = None THEN 1
  ELSE Get(last.in.attention_mask)[j - FillBefore(l)]

\* key position j must not reach the i-th query of layer l in the last call
Hidden(l, i, j) ==
  \/ j > FillBefore(l) + i
  \/ j > FillBefore(l) + NewTokens
  \/ MaskAt(l, j) = 0

\* C7: in every attention call the bias is the large negative value exactly at the
\* key positions after the query, at or beyond the fill index, or marked as
\* padding, and the query's output draws on no such position.
C7_BiasExcludesFutureUnfilledPadding ==
  (IsCall /\ last.err = "none") =>
    \A l \in 1..NumLayers : \A i \in 1..NewTokens :
      /\ DOMAIN last.biases[l][i] = 1..(IF UsedCache THEN MaxCacheLen ELSE NewTokens)
      /\ \A j \in DOMAIN last.biases[l][i] :
           (last.biases[l][i][j] = BiasMasked) <=> Hidden(l, i, j)
      /\ \A e \in last.attns[l][i].ctx : ~Hidden(l, i, e.at)

C7_Witness ==
  /\ IsCall /\ UsedCache /\ last.err = "none"
  /\ FillBefore(1) = 1 /\ NewTokens = 1
  /\ Get(last.before[1]).mask[1] = 0
  /\ last.biases[1][1][1] = BiasMasked
  /\ last.biases[1][1][2] = BiasOpen

\* C8: a forward pass leaves the model's parameters and its randomness streams as
\* they were before the call.
C8_ForwardLeavesModelUnchanged ==
  IsCall => (lm_head = last.lm_head0 /\ rngs = last.rngs0 /\ cfg \in Configs)

\* C9: a call on one session returns the logits and leaves the cache and the
\* model state it would if no other session had ever called the model.
C9_SessionsIndependent ==
  (IsCall /\ UsedCache) =>
    LET s == Get(last.in.past)
    IN /\ last.logits = solo[s].logits
       /\ cache[s] = solo[s].cache
       /\ rngs = solo[s].rngs
       /\ lm_head = solo[s].lm_head

\* C10: a session's cache has one view per decoder layer, and in a forward pass
\* block i uses view i and no other block uses that view.
C10_OneViewPerLayer ==
  /\ \A s \in Sessions : Len(cache[s]) = NumLayers
  /\ IsCall =>
       /\ Len(last.after) = NumLayers
       /\ \A k \in BlockEvents : last.trace[k].view = last.trace[k].idx
       /\ \A k1, k2 \in BlockEvents :
            last.trace[k1].view = last.trace[k2].view => k1 = k2
       /\ (UsedCache /\ last.err = "none") =>
            \A l \in 1..NumLayers :
              \A i \in 1..NewTokens :
                Get(last.after[l]).value[FillBefore(l) + i] = last.attns[l][i].q

C10_Witness ==
  /\ IsCall /\ UsedCache /\ last.err = "none"
  /\ Cardinality(BlockEvents) = NumLayers
  /\ FillAfter(NumLayers) > FillBefore(NumLayers)

\* C11: the logits every causal-LM wrapper returns are 32-bit floats, whatever
\* dtype the model was built with, tied or not, for both return_dict settings.
C11_LogitsAreFloat32 ==
  (IsCall /\ last.err = "none") => last.logits_dtype = Some("float32")

\* router-logit output is requested by the last call: by its argument, or by
\* the config default when the argument is omitted
RouterLogitsRequested ==
  \/ last.in.output_router_logits = Some(TRUE)
  \/ last.in.output_router_logits = None /\ cfg.output_router_logits

\* C17: DbrxForCausalLM returns an auxiliary loss exactly when router-logit
\* output is requested; the loss is the load-balancing loss over the router
\* outputs of all layers, times the configured coefficient.
C17_AuxLossIffRouterLogitsRequested ==
  (IsCall /\ cfg.arch = "dbrx" /\ last.err = "none") =>
    /\ (last.aux_loss # None) <=> RouterLogitsRequested
    /\ last.aux_loss # None =>
         /\ Get(last.aux_loss).times = "router_aux_loss_coef"
         /\ Get(last.aux_loss).loss.gate_logits = last.router_logits
         /\ Len(last.router_logits) = NumLayers
         /\ \A l \in 1..NumLayers : \A i \in 1..NewTokens :
              last.router_logits[l][i].attn = last.attns[l][i]

C17_Witness ==
  /\ IsCall /\ cfg.arch = "dbrx" /\ last.err = "none"
  /\ last.in.output_router_logits = None /\ cfg.output_router_logits
  /\ last.aux_loss # None
  /\ Len(Get(last.aux_loss).loss.gate_logits) = NumLayers

\* C20: no forward pass applies dropout unless the call passes an explicit
\* training flag (no call signature has one), so no dropout key is drawn and
\* the first block reads the embeddings as they are; cached decoding included.
C20_NoDropoutWithoutFlag ==
  (IsCall /\ last.err = "none") =>
    /\ rngs["dropout"] = last.rngs0["dropout"]
    /\ \A i \in 1..NewTokens : last.attns[1][i].q.of = last.first[i]

\* ------------------------------------------------------------ router properties
IsRouted == moe.op \in {"router", "ffn"} /\ moe.res.err = "none"
RoutedTokens == {t \in (1..MaxBatch) \X (1..MaxPos) : t[1] <= Len(moe.x) /\ t[2] <= Len(moe.x[1])}
TopK == cfg.ffn_config.moe_top_k
Uniform == cfg.ffn_config.uniform_expert_assignment
TopExperts(t) == moe.res.top_experts[t[1]][t[2]]
TopWeights(t) == moe.res.top_weights[t[1]][t[2]]
SoftmaxWeights(t) == moe.res.weights[t[1]][t[2]]

\* batch-major index of token t, from 0
FlatIndex(t) == (t[1] - 1) * Len(moe.x[1]) + (t[2] - 1)

\* experts that beat expert e: a larger weight, or the same weight and a lower index
Better(w, e) == {f \in Experts : w[f].num > w[e].num \/ (w[f].num = w[e].num /\ f < e)}

\* C12: with uniform assignment off and moe_top_k < num_experts the router returns
\* for every token moe_top_k pairwise distinct experts, those of the moe_top_k
\* largest softmax weights, the lower index first among equal weights; routers
\* that compute the same logits select the same experts.
C12_TopKDistinctAndStable ==
  (IsRouted /\ ~Uniform /\ TopK < NumExperts) =>
    /\ \A t \in RoutedTokens :
         /\ Len(TopExperts(t)) = TopK
         /\ \A i, j \in 1..TopK : i # j => TopExperts(t)[i] # TopExperts(t)[j]
         /\ \A e \in Experts :
              (\E j \in 1..TopK : TopExperts(t)[j] = e)
                <=> Cardinality(Better(SoftmaxWeights(t), e)) < TopK
    /\ (moe.op = "ffn" /\ moe.res2.weights = moe.res.weights)
         => moe.res2.top_experts = moe.res.top_experts

C12_Witness ==
  /\ IsRouted /\ ~Uniform /\ TopK < NumExperts
  /\ \E t \in RoutedTokens : \E e, f \in Experts :
       /\ e < f
       /\ SoftmaxWeights(t)[e].num = SoftmaxWeights(t)[f].num
       /\ \E j \in 1..TopK : TopExperts(t)[j] = e
       /\ \A j \in 1..TopK : TopExperts(t)[j] # f

\* the sum of weights tw, each num / rad^(1/p), is 1
SumsToOne(tw) ==
  SumOver([j \in 1..Len(tw) |-> tw[j].num], 1..Len(tw)) ^ tw[1].p = tw[1].rad

\* the ord-norm of weights tw is 1
HasUnitNorm(tw, ord) ==
  SumOver([j \in 1..Len(tw) |-> tw[j].num ^ ord], 1..Len(tw)) ^ tw[1].p = tw[1].rad ^ ord

C14_UniformIndexIsTokenIndex ==
  (IsRouted /\ Uniform) =>
    \A t \in RoutedTokens : \A j \in 1..TopK :
      TopExperts(t)[j] = FlatIndex(t) % NumExperts

\* C14 amended: with uniform assignment the index in slot j (from 0) of a token
\* is (token index * moe_top_k + j) modulo num_experts, whatever the logits;
\* this is the token index modulo num_experts when moe_top_k = 1.
C14_UniformIndexIsSlotIndex ==
  (IsRouted /\ Uniform) =>
    \A t \in RoutedTokens :
      /\ Len(TopExperts(t)) = TopK
      /\ \A j \in 1..TopK :
           TopExperts(t)[j] = (FlatIndex(t) * TopK + (j - 1)) % NumExperts
      /\ TopK = 1 => TopExperts(t)[1] = FlatIndex(t) % NumExperts

C14_Witness ==
  /\ IsRouted /\ Uniform /\ TopK >= 2 /\ Len(moe.x) >= 2
  /\ \E t \in RoutedTokens :
       /\ t[1] = 2
       /\ TopExperts(t)[2] # FlatIndex(t) % NumExperts
       /\ TopExperts(t) # top_k(SoftmaxWeights(t), TopK).indices

\* C15 as stated: with uniform assignment two routers that differ only in their
\* projection weights return the same expert indices and the same gate weights,
\* and the MoE layer gives the same output.
C15_UniformIgnoresRouterWeights ==
  (moe.op = "ffn" /\ Uniform) =>
    /\ moe.res2.top_experts = moe.res.top_experts
    /\ moe.res2.top_weights = moe.res.top_weights
    /\ moe.out2 = moe.out

\* C15 amended: with uniform assignment two routers that differ only in their
\* projection weights return the same expert indices; the gate weights are
\* still those the router computed from its logits.
C15_UniformIndicesIgnoreRouterWeights ==
  (moe.op = "ffn" /\ Uniform) =>
    /\ moe.res2.top_experts = moe.res.top_experts
    /\ \A t \in RoutedTokens : \A j \in 1..TopK :
         TopWeights(t)[j].num \in {SoftmaxWeights(t)[e].num : e \in Experts}

C15_Witness ==
  /\ moe.op = "ffn" /\ Uniform
  /\ moe.kernel2 # moe.kernel
  /\ moe.res2.weights # moe.res.weights
  /\ \E t \in RoutedTokens :
       top_k(SoftmaxWeights(t), TopK).indices
         # top_k(moe.res2.weights[t[1]][t[2]], TopK).indices

\* the gate weight token t gives expert e, summed over the first j routing slots
RECURSIVE RoutedWeight(_, _, _)
RoutedWeight(t, e, j) ==
  IF j = 0 THEN 0
  ELSE (IF TopExperts(t)[j] = e THEN TopWeights(t)[j].num ELSE 0) + RoutedWeight(t, e, j - 1)

\* C16: the expert-bank output of a token is the sum, over the experts in the
\* token's top-k indices, of gate weight times that expert's output on the token;
\* an expert that is not among them contributes zero.
C16_ExpertsOutputIsRoutedSum ==
  (moe.op = "ffn") =>
    \A t \in RoutedTokens : \A e \in Experts :
      /\ moe.out[t[1]][t[2]][e].mlp = [expert |-> e, x |-> moe.x[t[1]][t[2]]]
      /\ moe.out[t[1]][t[2]][e].coef = RoutedWeight(t, e, TopK)
      /\ moe.out[t[1]][t[2]][e].rad = TopWeights(t)[1].rad
      /\ (\A j \in 1..TopK : TopExperts(t)[j] # e) => moe.out[t[1]][t[2]][e].coef = 0

C16_Witness ==
  /\ moe.op = "ffn" /\ ~Uniform /\ TopK = 2
  /\ \E t \in RoutedTokens : \E e1, e2, e3 \in Experts :
       /\ e1 # e2
       /\ moe.out[t[1]][t[2]][e1].coef > 0
       /\ moe.out[t[1]][t[2]][e2].coef > moe.out[t[1]][t[2]][e1].coef
       /\ moe.out[t[1]][t[2]][e3].coef = 0

\* C18: a router call in non-deterministic mode with no jitter epsilon
\* configured fails with a configuration error.
C18_JitterWithoutEpsFails ==
  (moe.op = "router" /\ ~moe.deterministic /\ cfg.ffn_config.moe_jitter_eps = None)
    => moe.res.err = "RuntimeError"

\* C19: classification pooling over a batch of more than one row with no padding
\* token configured fails with an error and returns no pooled logits; a batch
\* of one row is accepted under the same config and the last position is pooled.
C19_PoolingNeedsPadTokenForBatches ==
  (moe.op = "classify" /\ cfg.pad_token_id = None) =>
    /\ moe.batch_size > 1 =>
         /\ moe.res.err # "none"
         /\ moe.res.pooled_logits = None
         /\ moe.sequence_length <= MaxPos => moe.res.err = "ValueError"
    /\ (moe.batch_size = 1 /\ moe.sequence_length <= MaxPos) =>
         /\ moe.res.err = "none"
         /\ Get(moe.res.pooled_logits) = <<moe.res.logits[1][moe.sequence_length]>>

C19_Witness ==
  /\ moe.op = "classify" /\ cfg.pad_token_id = None
  /\ moe.batch_size = 2 /\ moe.sequence_length = 2
  /\ moe.res.err = "ValueError"
  /\ Len(moe.res.logits) = 2

\* ------------------------------------------------------------ block pipeline properties
\* the names of the pre-attention, post-attention and final norm and of the
\* feed-forward sub-layer of each architecture
NormNames ==
  IF cfg.arch = "mistral"
    THEN [pre |-> "input_layernorm", post |-> "post_attention_layernorm",
          final |-> "norm", ffn |-> "mlp"]
  ELSE IF cfg.arch = "gpt_neox"
    THEN [pre |-> "input_layernorm", post |-> "post_attention_layernorm",
          final |-> "final_layer_norm", ffn |-> "mlp"]
  ELSE [pre |-> "norm_1", post |-> "norm_2", final |-> "norm_f", ffn |-> "ffn"]

\* what the embedding stage hands to block 0 at position i: the embedding, or
\* (GPT-NeoX) the embedding under the model's embedding dropout
IsEmbeddingOf(v, e) == v = e \/ (v.src = "dropout" /\ v.of = e)

AttentionsRequested == last.in.output_attentions = Some(TRUE)

\* the attention-weight tensor of layer l of the last call
LayerWeights(l) ==
  [tensor |-> "attention_weights",
   rows |-> [i \in 1..NewTokens |->
               [q |-> last.attns[l][i].q,
                over |-> {[at |-> e.at, k |-> e.k, rel |-> e.rel] :
                            e \in last.attns[l][i].ctx}]]]

\* C28: when attention output is requested every model returns an attentions
\* tuple with one entry per decoder layer in layer order, entry i being the
\* attention-weight tensor layer i computed, also when router logits are
\* requested with it.
C28_AttentionsHoldLayerWeights ==
  (IsCall /\ last.err = "none" /\ AttentionsRequested) =>
    /\ last.attentions # None
    /\ Len(Get(last.attentions)) = NumLayers
    /\ \A l \in 1..NumLayers : Get(last.attentions)[l] = LayerWeights(l)

\* the same for the two models whose attention module returns its weights
AttentionsHoldLayerWeightsOutsideDbrx ==
  cfg.arch # "dbrx" => C28_AttentionsHoldLayerWeights

IsAttentionInit == moe.op = "attention_init"

\* C29: an attention module that is constructed has num_attention_heads equal to
\* num_key_value_groups times num_key_value_heads, and a configuration whose
\* query-head count is not a multiple of its key/value-head count is rejected
C29_IntegerHeadGroupRatio ==
  IsAttentionInit =>
    /\ moe.res.err = "none" =>
         moe.num_attention_heads
           = Get(moe.res.num_key_value_groups) * moe.num_key_value_heads
    /\ (moe.num_key_value_heads # 0
          /\ moe.num_attention_heads % moe.num_key_value_heads # 0) =>
         moe.res.err # "none"

\* what the assert does give: a ratio of 1 is only accepted for equal head counts
GroupRatioOneMeansEqualHeads ==
  (IsAttentionInit /\ moe.res.err = "none" /\ moe.res.num_key_value_groups = Some(1)) =>
    moe.num_attention_heads = moe.num_key_value_heads

IsTimer == moe.op = "timer"
TimerSteps == IF IsTimer THEN {moe.steps[k] : k \in 1..Len(moe.steps)} ELSE {}

IsPack == moe.op = "pack"
IsQuantize == moe.op = "quantize"
IsRoundTrip == moe.op = "round_trip"

\* byte i (from 1) of packed holds codes 2i-1 and 2i of quantized, high nibble first
PackedAs(quantized, packed) ==
  /\ 2 * Len(packed) = Len(quantized)
  /\ \A i \in 1..Len(packed) :
       /\ packed[i] \in 0..255
       /\ packed[i] \div 16 = quantized[2 * i - 1]
       /\ packed[i] % 16 = quantized[2 * i]

\* C21: packing an even number of 4-bit codes puts code 2i in the high nibble
\* and code 2i+1 in the low nibble of byte i (counting from 0), every byte is in
\* 0..255, and unpacking returns the codes in their order
C21_PackUnpackRoundTrip ==
  /\ IsPack => PackedAs(moe.quantized, moe.packed) /\ moe.unpacked = moe.quantized
  /\ (IsQuantize /\ moe.q.err = "none") =>
       PackedAs(moe.q.quantized, moe.q.packed) /\ Unpack(moe.q.packed) = moe.q.quantized

C21_Witness ==
  IsPack /\ moe.quantized = <<15, 0, 7, 15>> /\ moe.packed = <<240, 127>>
    /\ moe.unpacked = <<15, 0, 7, 15>>

Level(code) == NF4_TABLE[code + 1]

\* C22: every normalized value in [-1, 1] gets a code in 0..15 whose level is a
\* nearest level: no other level is strictly closer, also at -1, at 1 and on a
\* boundary
C22_CodeIsNearestLevel ==
  (IsQuantize /\ moe.q.err = "none") =>
    \A i \in 1..Len(moe.q.normalized) :
      moe.q.normalized[i] # NaN =>
        /\ moe.q.quantized[i] \in 0..15
        /\ \A c \in 0..15 :
             Abs(moe.q.normalized[i].num - Level(c))
               >= Abs(moe.q.normalized[i].num - Level(moe.q.quantized[i]))

\* what the boundary search does give: a level is never left for another one
\* that is closer by more than the rounding of the boundaries to float32
CodeIsNearestLevelUpToRounding ==
  (IsQuantize /\ moe.q.err = "none") =>
    \A i \in 1..Len(moe.q.normalized) :
      moe.q.normalized[i] # NaN =>
        /\ moe.q.quantized[i] \in 0..15
        /\ \A c \in 0..15 :
             Abs(moe.q.normalized[i].num - Level(c)) + 16
               >= Abs(moe.q.normalized[i].num - Level(moe.q.quantized[i]))

\* the blocks of the quantized kernel whose values are all zero
ZeroBlocks == {b \in 1..Len(moe.q.absmax) : moe.q.absmax[b] = 0}
InBlock(b) == {i \in 1..Len(moe.W.data) : BlockOf(i, moe.block_size) = b}

\* C23: quantizing an all-zero block raises no error, its normalized values are
\* zero and not NaN, its codes are valid 4-bit codes, and it dequantizes to zeros
C23_ZeroBlockIsSafe ==
  (IsQuantize /\ moe.q.err = "none") =>
    /\ moe.d.err = "none"
    /\ \A b \in ZeroBlocks : \A i \in InBlock(b) :
         /\ moe.q.normalized[i] = Float(0)
         /\ moe.q.quantized[i] \in 0..15
         /\ moe.d.scaled.data[i] = 0

\* what does hold of an all-zero block: valid codes and zeros after dequantization
ZeroBlockDequantizesToZero ==
  (IsQuantize /\ moe.q.err = "none") =>
    /\ moe.d.err = "none"
    /\ \A b \in ZeroBlocks : \A i \in InBlock(b) :
         moe.q.quantized[i] \in 0..15 /\ moe.d.scaled.data[i] = 0

\* half the largest gap between adjacent levels
HalfLargestGap ==
  LET gaps == {NF4_TABLE[c + 1] - NF4_TABLE[c] : c \in 1..15}
  IN (CHOOSE g \in gaps : \A g2 \in gaps : g2 <= g) \div 2

\* err <= absmax * HalfLargestGap, for the scales of the kernels above
WithinStep(err, absmax) ==
  err = 0 \/ (absmax % One = 0 /\ err <= (absmax \div One) * HalfLargestGap)

KernelSize == moe.linear.in_features * moe.linear.out_features

\* C24: when block_size divides the element count, dequantize(quantize(W)) has
\* the shape of W and every element is within absmax times half the largest gap
\* between adjacent levels of the original
C24_RoundTripWithinStep ==
  (IsRoundTrip /\ KernelSize % moe.block_size = 0) =>
    /\ moe.nf4.err = "none" /\ moe.back.err = "none"
    /\ moe.back.linear.kernel.shape = moe.linear.kernel.shape
    /\ \A i \in 1..KernelSize :
         WithinStep(Abs(moe.back.linear.kernel.data[i] - moe.linear.kernel.data[i]),
                    moe.nf4.scales[BlockOf(i, moe.block_size)])

\* the conversion pair keeps the layer's features, bias and kernel shape, and the
\* quantized layer holds in*out/2 bytes, in*out/block_size scales and its block size
ConversionKeepsLayer ==
  /\ moe.nf4.err = "none" /\ moe.back.err = "none"
  /\ moe.back.linear.in_features = moe.linear.in_features
  /\ moe.back.linear.out_features = moe.linear.out_features
  /\ moe.back.linear.use_bias = moe.linear.use_bias
  /\ moe.back.linear.kernel.shape = moe.linear.kernel.shape
  /\ moe.back.linear.bias = moe.linear.bias
  /\ 2 * Len(moe.nf4.packed_kernel) = KernelSize
  /\ moe.block_size * Len(moe.nf4.scales) = KernelSize
  /\ moe.nf4.block_size = moe.block_size

====
